---- MODULE Spec2Model ----
(***************************************************************************)
(* psr: the process-snapshot collector (src/src/processes.rs), the         *)
(* consumer loop that applies its updates (src/src/main.rs) and the        *)
(* consumer's state (src/src/app.rs), as one state machine.                *)
(*                                                                         *)
(* Time is counted in whole seconds.  A handler of the collector that is   *)
(* ready runs before the clock moves on: a collection pass takes less than *)
(* one timer period.  f32 values are integers; Option<T> is a sequence of  *)
(* length 0 (None) or 1 (Some).                                            *)
(***************************************************************************)
EXTENDS Integers, Sequences, FiniteSets, TLC

\* ------------------------------------------------------------------ bounds
\* Process identifiers the operating system hands out.
MaxPid == 2
\* Changes of the OS process table (spawn, exit, change of a process).
MaxOsEvents == 1
\* Keys the operator presses.
MaxKeys == 1
\* Seconds of the short run (processes come and go, keys are pressed).
ShortHorizon == 1
\* Seconds of the long run (static process table, timer-driven cadence).
LongHorizon == 23
\* Messages the update channel holds before a send waits; stands for the
\* capacity given to mpsc::channel in main.
MaxChannel == 3
\* update_history calls of the history run.
MaxUpdates == 62
\* Input streams of the history run.
MaxSeed == 2
\* SystemResources::update calls of the system-resources run.
MaxSysUpdates == 3
\* Largest counter value (cpu, used, total) of the system-resources run.
MaxCounter == 2
\* Refresh requests of the request run (one more than the queue holds).
MaxRequests == 11
\* Seconds of the lookup run (past the longer of the two cache lifetimes).
MaxLookupTime == 32
\* Refresh requests of the fair run.
MaxFairRequests == 2
\* Processes in a chunk of the batch run; stands for BATCH_SIZE there, so that
\* a sample of MaxPid processes is merged in several chunks.
MaxBatch == 1
\* the places of the refresh channel in the run of the collector's loop
MaxRefreshQueue == 1
\* Seconds of the late-comer run (past the first full refresh the timer starts).
LateHorizon == 12
\* Keys pressed in the sort run.
MaxSortKeys == 2
\* Keys pressed in the filter run.
MaxFilterKeys == 2

\* ------------------------------------------------------- program constants
HISTORY_CAP == 60
FULL_REFRESH_SECS == 10
TICK_SECS == 1
USER_TTL_SECS == 30
THREAD_TTL_SECS == 5
BATCH_SIZE == 50
REFRESH_CAP == 10

Pids == 1..MaxPid

None == <<>>
Some(x) == <<x>>

Min(a, b) == IF a <= b THEN a ELSE b

\* The last n elements of s, in order.
LastN(s, n) == IF Len(s) <= n THEN s ELSE SubSeq(s, Len(s) - n + 1, Len(s))

EmptyMap == [p \in {} |-> 0]

\* ------------------------------------------------------- the OS, as sampled
\* A process of the OS table is its pid and a phase; every attribute the
\* collector reads is a function of the two, and differs between the phases.
SysStatuses == <<"Run", "Sleep", "Stop", "Zombie", "Idle">>

ProcName(pid, phase) ==
    IF phase = 0 THEN (IF pid = 1 THEN "init" ELSE "shell")
    ELSE (IF pid = 1 THEN "systemd" ELSE "Bash")

ProcCpu(pid, phase) == 10 * phase + pid

ProcMemory(pid, phase) == 100 * (1 - phase) + 2 * pid

ProcStatus(pid, phase) == SysStatuses[((pid + 2 * phase) % 5) + 1]

ProcRunTime(pid, phase) == 5 * pid + phase

ProcCmd(pid, phase) ==
    IF phase = 0 THEN <<ProcName(pid, 0)>> ELSE <<ProcName(pid, 1), "-l">>

ProcParent(pid, phase) ==
    IF phase = 0 THEN (IF pid = 1 THEN None ELSE Some(1)) ELSE Some(0)

\* What `ps -o user= -p pid` prints for a live process.
ProcOwner(pid, phase) ==
    IF phase = 0 THEN (IF pid = 1 THEN "root" ELSE "alice") ELSE "bob"

\* What `ps -o nlwp= -p pid` prints for a live process.
ProcNlwp(pid, phase) == 1 + phase + (pid % 2)

\* ----------------------------------------------------------- ProcessStatus
\* #[derive(PartialOrd, Ord)]: the variants in declaration order.
StatusOrder == <<"Running", "Sleeping", "Stopped", "Zombie", "Unknown">>

ConvertStatus(s) ==
    CASE s = "Run" -> "Running"
      [] s = "Sleep" -> "Sleeping"
      [] s = "Stop" -> "Stopped"
      [] s = "Zombie" -> "Zombie"
      [] OTHER -> "Unknown"

\* ------------------------------------------------------------- ProcessInfo
ProcessInfoNew(pid, name, cpu_usage, memory, status, user, start_time, cmd, threads, parent, t) ==
    [pid |-> pid, name |-> name, cpu_usage |-> cpu_usage, memory |-> memory,
     status |-> status, user |-> user, start_time |-> start_time, cmd |-> cmd,
     threads |-> threads, parent |-> parent,
     cpu_history |-> <<cpu_usage>>, memory_history |-> <<memory>>,
     last_updated |-> t]

update_history_no_evict(pi, cpu, memory, t) ==
    [pi EXCEPT !.cpu_usage = cpu, !.memory = memory,
               !.cpu_history = Append(@, cpu),
               !.memory_history = Append(@, memory),
               !.last_updated = t]

update_history_current_kept(pi, cpu, memory, t) ==
    LET full == Len(pi.cpu_history) >= HISTORY_CAP
        ch == IF full THEN Tail(pi.cpu_history) ELSE pi.cpu_history
        mh == IF full THEN Tail(pi.memory_history) ELSE pi.memory_history
    IN [pi EXCEPT !.cpu_history = Append(ch, cpu),
                  !.memory_history = Append(mh, memory),
                  !.last_updated = t]

update_history(pi, cpu, memory, t) ==
    LET full == Len(pi.cpu_history) >= HISTORY_CAP
        ch == IF full THEN Tail(pi.cpu_history) ELSE pi.cpu_history
        mh == IF full THEN Tail(pi.memory_history) ELSE pi.memory_history
    IN [pi EXCEPT !.cpu_usage = cpu, !.memory = memory,
                  !.cpu_history = Append(ch, cpu),
                  !.memory_history = Append(mh, memory),
                  !.last_updated = t]

\* ---------------------------------------------------------- metadata caches
\* The external query of UserCache::get_user: ps's output, trimmed; empty for
\* a process that is gone.
PsUser(os, pid) ==
    IF pid \in os.alive THEN ProcOwner(pid, os.phase[pid]) ELSE ""

\* The external query of ThreadCache::get_thread_count: ps's output parsed as
\* a number; the parse fails on the empty output for a process that is gone.
PsNlwp(os, pid) ==
    IF pid \in os.alive THEN Some(ProcNlwp(pid, os.phase[pid])) ELSE None

UserCacheNew(t) == [cache |-> EmptyMap, last_refresh |-> t]

ThreadCacheNew(t) == [cache |-> EmptyMap, last_refresh |-> t]

get_user_raw(uc, pid, t, os) ==
    LET c1 == IF t - uc.last_refresh > USER_TTL_SECS
              THEN [cache |-> EmptyMap, last_refresh |-> t]
              ELSE uc
    IN IF pid \in DOMAIN c1.cache
       THEN [uc |-> c1, val |-> c1.cache[pid], queried |-> FALSE]
       ELSE LET username == PsUser(os, pid)
            IN [uc |-> [c1 EXCEPT !.cache = (pid :> username) @@ @], val |-> username,
                queried |-> TRUE]

get_user_strict_ttl(uc, pid, t, os) ==
    LET c1 == IF t - uc.last_refresh >= USER_TTL_SECS
              THEN [cache |-> EmptyMap, last_refresh |-> t]
              ELSE uc
    IN IF pid \in DOMAIN c1.cache
       THEN [uc |-> c1, val |-> c1.cache[pid], queried |-> FALSE]
       ELSE LET username == PsUser(os, pid)
                user == IF username = "" THEN "unknown" ELSE username
            IN [uc |-> [c1 EXCEPT !.cache = (pid :> user) @@ @], val |-> user,
                queried |-> TRUE]

\* [uc |-> the cache after the call, val |-> the user returned, queried |->
\* ps was run]
get_user(uc, pid, t, os) ==
    LET c1 == IF t - uc.last_refresh > USER_TTL_SECS
              THEN [cache |-> EmptyMap, last_refresh |-> t]
              ELSE uc
    IN IF pid \in DOMAIN c1.cache
       THEN [uc |-> c1, val |-> c1.cache[pid], queried |-> FALSE]
       ELSE LET username == PsUser(os, pid)
                user == IF username = "" THEN "unknown" ELSE username
            IN [uc |-> [c1 EXCEPT !.cache = (pid :> user) @@ @], val |-> user,
                queried |-> TRUE]

get_thread_count_per_key(tc, pid, t, os) ==
    LET c1 == IF t - tc.last_refresh > THREAD_TTL_SECS
              THEN [cache |-> [p \in (DOMAIN tc.cache) \ {pid} |-> tc.cache[p]],
                    last_refresh |-> t]
              ELSE tc
    IN IF pid \in DOMAIN c1.cache
       THEN [tc |-> c1, val |-> Some(c1.cache[pid]), queried |-> FALSE]
       ELSE LET thread_count == PsNlwp(os, pid)
            IN [tc |-> IF thread_count # None
                       THEN [c1 EXCEPT !.cache = (pid :> thread_count[1]) @@ @]
                       ELSE c1,
                val |-> thread_count, queried |-> TRUE]

get_thread_count_zero_on_failure(tc, pid, t, os) ==
    LET c1 == IF t - tc.last_refresh > THREAD_TTL_SECS
              THEN [cache |-> EmptyMap, last_refresh |-> t]
              ELSE tc
    IN IF pid \in DOMAIN c1.cache
       THEN [tc |-> c1, val |-> Some(c1.cache[pid]), queried |-> FALSE]
       ELSE LET thread_count == PsNlwp(os, pid)
            IN [tc |-> IF thread_count # None
                       THEN [c1 EXCEPT !.cache = (pid :> thread_count[1]) @@ @]
                       ELSE c1,
                val |-> IF thread_count # None THEN thread_count ELSE Some(0),
                queried |-> TRUE]

\* [tc |-> the cache after the call, val |-> the Option<usize> returned,
\* queried |-> ps was run]
get_thread_count_never_expires(tc, pid, t, os) ==
    IF pid \in DOMAIN tc.cache
    THEN [tc |-> tc, val |-> Some(tc.cache[pid]), queried |-> FALSE]
    ELSE LET thread_count == PsNlwp(os, pid)
         IN [tc |-> IF thread_count # None
                    THEN [tc EXCEPT !.cache = (pid :> thread_count[1]) @@ @]
                    ELSE tc,
             val |-> thread_count, queried |-> TRUE]

get_thread_count(tc, pid, t, os) ==
    LET c1 == IF t - tc.last_refresh > THREAD_TTL_SECS
              THEN [cache |-> EmptyMap, last_refresh |-> t]
              ELSE tc
    IN IF pid \in DOMAIN c1.cache
       THEN [tc |-> c1, val |-> Some(c1.cache[pid]), queried |-> FALSE]
       ELSE LET thread_count == PsNlwp(os, pid)
            IN [tc |-> IF thread_count # None
                       THEN [c1 EXCEPT !.cache = (pid :> thread_count[1]) @@ @]
                       ELSE c1,
                val |-> thread_count, queried |-> TRUE]

\* --------------------------------------------------- ProcessMonitor, merging
\* One element of system_processes: what get_processes copies out of the
\* sysinfo handle for a process seen in phase `phase`.
SampleOf(pid, phase) ==
    [pid |-> pid, cmd |-> ProcCmd(pid, phase), name |-> ProcName(pid, phase),
     cpu_usage |-> ProcCpu(pid, phase), memory |-> ProcMemory(pid, phase),
     status |-> ProcStatus(pid, phase), run_time |-> ProcRunTime(pid, phase),
     parent |-> ProcParent(pid, phase)]

\* The orders in which a HashMap with key set S may be iterated.
Orders(S) ==
    {s \in [1..Cardinality(S) -> S] : \A i, j \in 1..Cardinality(S) : s[i] = s[j] => i = j}

\* The (user, threads, parent_pid) of get_processes, with the caches as the
\* lookups leave them; looked_up: the metadata caches were consulted.
ExpensiveInfo_placeholder(cache, uc, tc, e, is_full_refresh, t, os) ==
    IF is_full_refresh \/ e.pid \notin DOMAIN cache
    THEN [user |-> "fetching...", threads |-> None, parent |-> e.parent,
          uc |-> uc, tc |-> tc, looked_up |-> FALSE, uq |-> FALSE, tq |-> FALSE]
    ELSE [user |-> cache[e.pid].user, threads |-> cache[e.pid].threads,
          parent |-> cache[e.pid].parent, uc |-> uc, tc |-> tc, looked_up |-> FALSE,
          uq |-> FALSE, tq |-> FALSE]

ExpensiveInfo(cache, uc, tc, e, is_full_refresh, t, os) ==
    IF is_full_refresh \/ e.pid \notin DOMAIN cache
    THEN LET u == IF is_full_refresh THEN get_user(uc, e.pid, t, os)
                  ELSE [uc |-> uc, val |-> "fetching...", queried |-> FALSE]
             th == IF is_full_refresh THEN get_thread_count(tc, e.pid, t, os)
                   ELSE [tc |-> tc, val |-> None, queried |-> FALSE]
         IN [user |-> u.val, threads |-> th.val, parent |-> e.parent,
             uc |-> u.uc, tc |-> th.tc, looked_up |-> is_full_refresh,
             uq |-> u.queried, tq |-> th.queried]
    ELSE IF e.pid \in DOMAIN cache
    THEN [user |-> cache[e.pid].user, threads |-> cache[e.pid].threads,
          parent |-> cache[e.pid].parent, uc |-> uc, tc |-> tc, looked_up |-> FALSE,
          uq |-> FALSE, tq |-> FALSE]
    ELSE [user |-> "unknown", threads |-> None, parent |-> None,
          uc |-> uc, tc |-> tc, looked_up |-> FALSE, uq |-> FALSE, tq |-> FALSE]

\* The snapshot get_processes stores and pushes for one sampled process.
MergedEntry_always_full(cache, e, info, is_full_refresh, t) ==
    LET status == ConvertStatus(e.status)
    IN IF e.pid \in DOMAIN cache
       THEN [update_history(cache[e.pid], e.cpu_usage, e.memory, t)
                EXCEPT !.status = status, !.user = info.user,
                       !.threads = info.threads, !.parent = info.parent,
                       !.cmd = e.cmd]
       ELSE ProcessInfoNew(e.pid, e.name, e.cpu_usage, e.memory, status, info.user,
                           e.run_time, e.cmd, info.threads, info.parent, t)

MergedEntry_keeps_user(cache, e, info, is_full_refresh, t) ==
    LET status == ConvertStatus(e.status)
    IN IF e.pid \in DOMAIN cache
       THEN LET cached_process == update_history(cache[e.pid], e.cpu_usage, e.memory, t)
            IN IF is_full_refresh
               THEN [cached_process EXCEPT !.status = status,
                                           !.threads = info.threads,
                                           !.parent = info.parent, !.cmd = e.cmd]
               ELSE cached_process
       ELSE ProcessInfoNew(e.pid, e.name, e.cpu_usage, e.memory, status, info.user,
                           e.run_time, e.cmd, info.threads, info.parent, t)

MergedEntry(cache, e, info, is_full_refresh, t) ==
    LET status == ConvertStatus(e.status)
    IN IF e.pid \in DOMAIN cache
       THEN LET cached_process == update_history(cache[e.pid], e.cpu_usage, e.memory, t)
            IN IF is_full_refresh
               THEN [cached_process EXCEPT !.status = status, !.user = info.user,
                                           !.threads = info.threads,
                                           !.parent = info.parent, !.cmd = e.cmd]
               ELSE cached_process
       ELSE ProcessInfoNew(e.pid, e.name, e.cpu_usage, e.memory, status, info.user,
                           e.run_time, e.cmd, info.threads, info.parent, t)

MergeOne_pushes_stale(st, e, is_full_refresh, t, os) ==
    LET info == ExpensiveInfo(st.cache, st.uc, st.tc, e, is_full_refresh, t, os)
        entry == MergedEntry(st.cache, e, info, is_full_refresh, t)
    IN [cache |-> (e.pid :> entry) @@ st.cache,
        uc |-> info.uc, tc |-> info.tc,
        batch |-> Append(st.batch, IF e.pid \in DOMAIN st.cache THEN st.cache[e.pid]
                                   ELSE entry),
        active |-> st.active \cup {e.pid},
        looked |-> st.looked \cup (IF info.looked_up THEN {e.pid} ELSE {}),
        uq |-> st.uq \cup (IF info.uq THEN {e.pid} ELSE {}),
        tq |-> st.tq \cup (IF info.tq THEN {e.pid} ELSE {})]

MergeOne_new_only(st, e, is_full_refresh, t, os) ==
    LET info == ExpensiveInfo(st.cache, st.uc, st.tc, e, is_full_refresh, t, os)
        entry == MergedEntry(st.cache, e, info, is_full_refresh, t)
    IN [cache |-> (e.pid :> entry) @@ st.cache,
        uc |-> info.uc, tc |-> info.tc,
        batch |-> IF e.pid \in DOMAIN st.cache THEN st.batch ELSE Append(st.batch, entry),
        active |-> st.active \cup {e.pid},
        looked |-> st.looked \cup (IF info.looked_up THEN {e.pid} ELSE {}),
        uq |-> st.uq \cup (IF info.uq THEN {e.pid} ELSE {}),
        tq |-> st.tq \cup (IF info.tq THEN {e.pid} ELSE {})]

MergeOne_evicts_as_it_goes(st, e, is_full_refresh, t, os) ==
    LET info == ExpensiveInfo(st.cache, st.uc, st.tc, e, is_full_refresh, t, os)
        entry == MergedEntry(st.cache, e, info, is_full_refresh, t)
        active == st.active \cup {e.pid}
    IN [cache |-> [p \in (DOMAIN st.cache \cup {e.pid}) \cap active |->
                      IF p = e.pid THEN entry ELSE st.cache[p]],
        uc |-> info.uc, tc |-> info.tc,
        batch |-> Append(st.batch, entry),
        active |-> active,
        looked |-> st.looked \cup (IF info.looked_up THEN {e.pid} ELSE {}),
        uq |-> st.uq \cup (IF info.uq THEN {e.pid} ELSE {}),
        tq |-> st.tq \cup (IF info.tq THEN {e.pid} ELSE {})]

\* The body of the inner loop of get_processes for one element of a chunk.
\* st: [cache, uc, tc, batch, active, looked, uq, tq] (looked: the pids whose
\* metadata lookups were made; uq, tq: the pids for whose user and thread
\* count ps was run; the three kept for the claims only).
MergeOne(st, e, is_full_refresh, t, os) ==
    LET info == ExpensiveInfo(st.cache, st.uc, st.tc, e, is_full_refresh, t, os)
        entry == MergedEntry(st.cache, e, info, is_full_refresh, t)
    IN [cache |-> (e.pid :> entry) @@ st.cache,
        uc |-> info.uc, tc |-> info.tc,
        batch |-> Append(st.batch, entry),
        active |-> st.active \cup {e.pid},
        looked |-> st.looked \cup (IF info.looked_up THEN {e.pid} ELSE {}),
        uq |-> st.uq \cup (IF info.uq THEN {e.pid} ELSE {}),
        tq |-> st.tq \cup (IF info.tq THEN {e.pid} ELSE {})]

RECURSIVE MergeChunk(_, _, _, _, _)
MergeChunk(st, chunk, is_full_refresh, t, os) ==
    IF chunk = <<>> THEN st
    ELSE MergeChunk(MergeOne(st, Head(chunk), is_full_refresh, t, os),
                    Tail(chunk), is_full_refresh, t, os)

\* process_cache.retain(|pid, _| active_pids.contains(pid))
Retain_nothing_removed(cache, active_pids) == cache

Retain(cache, active_pids) ==
    [p \in (DOMAIN cache) \cap active_pids |-> cache[p]]

\* is_full_refresh of collect_and_send_processes
IsFullRefresh_late(force_full_refresh, last_full, t) ==
    force_full_refresh \/ t - last_full > FULL_REFRESH_SECS + TICK_SECS

IsFullRefresh_early(force_full_refresh, last_full, t) ==
    force_full_refresh \/ t - last_full >= FULL_REFRESH_SECS

IsFullRefresh_timer_only(force_full_refresh, last_full, t) ==
    t - last_full > FULL_REFRESH_SECS

IsFullRefresh(force_full_refresh, last_full, t) ==
    force_full_refresh \/ t - last_full > FULL_REFRESH_SECS

\* ------------------------------------------------------------- termination
\* How running `kill -9 pid` may end: the command cannot be run (status() is
\* Err), the OS rejects the request (a non-zero exit status), or the process
\* is killed (exit status 0), which only a live process can be.
KillOutcomes(table, pid) ==
    {"cannot_run", "rejected"} \cup (IF pid \in table.alive THEN {"killed"} ELSE {})

\* The OS table after the command ended with `outcome`.
AfterKill(table, pid, outcome) ==
    IF outcome = "killed" THEN [table EXCEPT !.alive = @ \ {pid}] ELSE table

kill_process_unwrap_true(outcome) ==
    CASE outcome = "cannot_run" -> TRUE
      [] outcome = "rejected" -> FALSE
      [] outcome = "killed" -> TRUE

\* ProcessMonitor::kill_process: .status().map(|s| s.success()).unwrap_or(false)
kill_process(outcome) ==
    CASE outcome = "cannot_run" -> FALSE
      [] outcome = "rejected" -> FALSE
      [] outcome = "killed" -> TRUE

\* ProcessUpdate, the three kinds in one shape.
MsgProcessList(list) ==
    [kind |-> "ProcessList", list |-> list, cpu |-> 0, used |-> 0, total |-> 0, status |-> ""]

MsgSystemInfo(cpu, used, total) ==
    [kind |-> "SystemInfo", list |-> <<>>, cpu |-> cpu, used |-> used, total |-> total, status |-> ""]

MsgLoadingStatus(text) ==
    [kind |-> "LoadingStatus", list |-> <<>>, cpu |-> 0, used |-> 0, total |-> 0, status |-> text]

\* What the sysinfo handle reports system-wide after a refresh of an OS table.
RECURSIVE SumOf(_)
SumOf(f) ==
    IF DOMAIN f = {} THEN 0
    ELSE LET p == CHOOSE x \in DOMAIN f : TRUE
         IN f[p] + SumOf([q \in (DOMAIN f) \ {p} |-> f[q]])

OsTotalMemory == 1000

GlobalCpu(os) == SumOf([p \in os.alive |-> ProcCpu(p, os.phase[p])])

UsedMemory(os) == SumOf([p \in os.alive |-> ProcMemory(p, os.phase[p])])

\* ---------------------------------------------------------- SystemResources
RECURSIVE Zeros(_)
Zeros(n) == IF n = 0 THEN <<>> ELSE Append(Zeros(n - 1), 0)

\* (used as f32 / total as f32) * 100.0; a division by zero does not trap:
\* 0/0 is NaN (here -1) and x/0 is infinite (here -2).
MemoryPercent(used, total) ==
    IF total = 0 THEN (IF used = 0 THEN 0 - 1 ELSE 0 - 2)
    ELSE (used * 100) \div total

SystemResourcesNew ==
    [cpu_usage |-> 0, used_memory |-> 0, total_memory |-> 1,
     cpu_history |-> Zeros(HISTORY_CAP), memory_history |-> Zeros(HISTORY_CAP)]

SystemResourcesUpdate_evicts_late(sr, cpu, used, total) ==
    LET full == Len(sr.cpu_history) > HISTORY_CAP
        ch == IF full THEN Tail(sr.cpu_history) ELSE sr.cpu_history
        mh == IF full THEN Tail(sr.memory_history) ELSE sr.memory_history
    IN [cpu_usage |-> cpu, used_memory |-> used, total_memory |-> total,
        cpu_history |-> Append(ch, cpu),
        memory_history |-> Append(mh, MemoryPercent(used, total))]

SystemResourcesUpdate(sr, cpu, used, total) ==
    LET full == Len(sr.cpu_history) >= HISTORY_CAP
        ch == IF full THEN Tail(sr.cpu_history) ELSE sr.cpu_history
        mh == IF full THEN Tail(sr.memory_history) ELSE sr.memory_history
    IN [cpu_usage |-> cpu, used_memory |-> used, total_memory |-> total,
        cpu_history |-> Append(ch, cpu),
        memory_history |-> Append(mh, MemoryPercent(used, total))]

memory_percentage(sr) == MemoryPercent(sr.used_memory, sr.total_memory)

\* ---------------------------------------------------------------------- App
SortKeys == {"Pid", "Name", "Cpu", "Memory", "Status", "User", "StartTime"}

\* The characters of the strings the model uses.
Chars(s) ==
    CASE s = "init" -> <<"i", "n", "i", "t">>
      [] s = "shell" -> <<"s", "h", "e", "l", "l">>
      [] s = "systemd" -> <<"s", "y", "s", "t", "e", "m", "d">>
      [] s = "Bash" -> <<"B", "a", "s", "h">>
      [] s = "root" -> <<"r", "o", "o", "t">>
      [] s = "alice" -> <<"a", "l", "i", "c", "e">>
      [] s = "bob" -> <<"b", "o", "b">>
      [] s = "unknown" -> <<"u", "n", "k", "n", "o", "w", "n">>
      [] s = "fetching..." -> <<"f", "e", "t", "c", "h", "i", "n", "g", ".", ".", ".">>
      [] OTHER -> <<>>

\* The strings in byte order (String's Ord), for the comparisons of sort_by.
StringOrder ==
    <<"Bash", "alice", "bob", "fetching...", "init", "root", "shell", "systemd", "unknown">>

StringRank(s) == CHOOSE i \in 1..Len(StringOrder) : StringOrder[i] = s

ToLowerChar(c) == IF c = "B" THEN "b" ELSE c

ToLowercase(cs) == [i \in 1..Len(cs) |-> ToLowerChar(cs[i])]

DigitChars == <<"0", "1", "2", "3", "4", "5", "6", "7", "8", "9">>

\* pid.to_string()
RECURSIVE PidToString(_)
PidToString(n) ==
    IF n < 10 THEN <<DigitChars[n + 1]>>
    ELSE Append(PidToString(n \div 10), DigitChars[(n % 10) + 1])

\* str::contains
Contains(hay, needle) ==
    \E i \in 0..(Len(hay) - Len(needle)) : SubSeq(hay, i + 1, i + Len(needle)) = needle

\* The closure of the filter of update_selection.
MatchesFilter(p, filter) ==
    \/ Contains(ToLowercase(Chars(p.name)), filter)
    \/ Contains(PidToString(p.pid), filter)
    \/ Contains(ToLowercase(Chars(p.user)), filter)

RECURSIVE SelectSeq2(_, _)
SelectSeq2(list, filter) ==
    IF list = <<>> THEN <<>>
    ELSE IF MatchesFilter(Head(list), filter)
         THEN <<Head(list)>> \o SelectSeq2(Tail(list), filter)
         ELSE SelectSeq2(Tail(list), filter)

\* iter().position(|p| p.pid == pid), 0-based, None when absent.
PositionOf(list, pid) ==
    IF \E i \in 1..Len(list) : list[i].pid = pid
    THEN Some((CHOOSE i \in 1..Len(list) :
                  /\ list[i].pid = pid
                  /\ \A j \in 1..(i - 1) : list[j].pid # pid) - 1)
    ELSE None

AppNew ==
    [processes |-> <<>>, selected_index |-> 0, previous_selected_pid |-> None,
     sort_key |-> "Cpu", sort_ascending |-> FALSE,
     system_resources |-> SystemResourcesNew,
     filter |-> <<>>, loading_status |-> "Initializing..."]

\* self.processes[self.selected_index] with the index out of bounds: a panic.
IndexPanics(app) ==
    app.processes # <<>> /\ app.selected_index >= Len(app.processes)

\* update_selection, for an app on which it does not panic.
update_selection(app) ==
    LET previous_pid == IF app.processes # <<>>
                        THEN Some(app.processes[app.selected_index + 1].pid)
                        ELSE app.previous_selected_pid
        processes == IF app.filter # <<>>
                     THEN SelectSeq2(app.processes, ToLowercase(app.filter))
                     ELSE app.processes
        bounded == IF processes = <<>> THEN 0
                   ELSE IF app.selected_index >= Len(processes) THEN Len(processes) - 1
                   ELSE app.selected_index
        found == IF previous_pid = None THEN None
                 ELSE PositionOf(processes, previous_pid[1])
    IN [app EXCEPT !.processes = processes,
                   !.selected_index = IF found # None THEN found[1] ELSE bounded]

\* add_to_filter(c) and backspace_filter(): the filter is changed and
\* update_selection applies it at once.
add_to_filter(app, c) == update_selection([app EXCEPT !.filter = Append(@, c)])

backspace_filter(app) ==
    update_selection([app EXCEPT !.filter = IF @ = <<>> THEN <<>>
                                            ELSE SubSeq(@, 1, Len(@) - 1)])

\* clear_filter(): [app |-> the app after the call, refresh |-> a refresh was
\* requested]
clear_filter_no_refresh(app) ==
    [app |-> [app EXCEPT !.filter = <<>>], refresh |-> FALSE]

clear_filter(app) ==
    [app |-> [app EXCEPT !.filter = <<>>], refresh |-> app.filter # <<>>]

\* The key sort_processes compares by, as a number.
SortRank(p, key) ==
    CASE key = "Pid" -> p.pid
      [] key = "Name" -> StringRank(p.name)
      [] key = "Cpu" -> p.cpu_usage
      [] key = "Memory" -> p.memory
      [] key = "Status" -> CHOOSE i \in 1..Len(StatusOrder) : StatusOrder[i] = p.status
      [] key = "User" -> StringRank(p.user)
      [] key = "StartTime" -> p.start_time

\* The comparator of sort_by does not put b before a.
NotAfter(a, b, key, ascending) ==
    IF ascending THEN SortRank(a, key) <= SortRank(b, key)
    ELSE SortRank(a, key) >= SortRank(b, key)

\* x placed after the elements the comparator does not put after it.
RECURSIVE InsertStable(_, _, _, _)
InsertStable(sorted, x, key, ascending) ==
    IF sorted = <<>> THEN <<x>>
    ELSE IF NotAfter(Head(sorted), x, key, ascending)
         THEN <<Head(sorted)>> \o InsertStable(Tail(sorted), x, key, ascending)
         ELSE <<x>> \o sorted

\* slice::sort_by: a stable sort.
RECURSIVE SortBy(_, _, _)
SortBy(list, key, ascending) ==
    IF list = <<>> THEN <<>>
    ELSE InsertStable(SortBy(SubSeq(list, 1, Len(list) - 1), key, ascending),
                      list[Len(list)], key, ascending)

sort_processes(app) ==
    [app EXCEPT !.processes = SortBy(app.processes, app.sort_key, app.sort_ascending)]

toggle_sort(app) == sort_processes([app EXCEPT !.sort_ascending = ~@])

set_sort_key_list_left(app, key) ==
    IF app.sort_key = key
    THEN [app EXCEPT !.sort_ascending = ~@]
    ELSE [app EXCEPT !.sort_key = key, !.sort_ascending = FALSE]

set_sort_key(app, key) ==
    sort_processes(IF app.sort_key = key
                   THEN [app EXCEPT !.sort_ascending = ~@]
                   ELSE [app EXCEPT !.sort_key = key, !.sort_ascending = FALSE])

\* The consumer's handling of one update (main's `match update`), for an
\* update on which it does not panic.
ApplyUpdate(app, update) ==
    CASE update.kind = "ProcessList" ->
           sort_processes(update_selection([app EXCEPT !.processes = update.list]))
      [] update.kind = "SystemInfo" ->
           [app EXCEPT !.system_resources =
                SystemResourcesUpdate(@, update.cpu, update.used, update.total)]
      [] update.kind = "LoadingStatus" ->
           [app EXCEPT !.loading_status = update.status]

ApplyPanics(app, update) ==
    update.kind = "ProcessList" /\ IndexPanics([app EXCEPT !.processes = update.list])

\* App::next and App::previous, for a non-empty list and an index in bounds.
next(app) ==
    [app EXCEPT !.previous_selected_pid = Some(app.processes[app.selected_index + 1].pid),
                !.selected_index = (app.selected_index + 1) % Len(app.processes)]

previous(app) ==
    [app EXCEPT !.previous_selected_pid = Some(app.processes[app.selected_index + 1].pid),
                !.selected_index = IF app.selected_index > 0 THEN app.selected_index - 1
                                   ELSE Len(app.processes) - 1]

\* -------------------------------------------------------------------- state
VARIABLES
    os,                \* the OS process table: [alive, phase]
    now,               \* the clock (Instant::now()), in seconds
    os_events,         \* OS table changes so far
    keys,              \* keys pressed so far
    system,            \* ProcessMonitor.system: the table as last refreshed
    user_cache,        \* ProcessMonitor.user_cache
    thread_cache,      \* ProcessMonitor.thread_cache
    process_cache,     \* ProcessMonitor.process_cache: pid -> ProcessInfo
    last_full_refresh, \* ProcessMonitor.last_full_refresh
    next_tick,         \* the deadline of interval_timer's next tick
    pc,                \* where the monitor task stands
    frame,             \* the locals of collect_and_send_processes / get_processes
    starter,           \* the task spawned in ProcessMonitor::new
    updates,           \* the update channel (tx -> rx)
    refresh_queue,     \* the refresh channel: requests waiting
    app,               \* the consumer's App
    crashed,           \* the consumer's thread panicked
    obs,               \* what the claims observe of a run (no effect on it)
    ui,                \* where main's loop stands (followed in the loop run)
    probe,             \* the history run: a ProcessInfo and what was pushed
    sys_updates        \* the system-resources run: updates applied

vars ==
    <<os, now, os_events, keys, system, user_cache, thread_cache, process_cache,
      last_full_refresh, next_tick, pc, frame, starter, updates, refresh_queue,
      app, crashed, obs, ui, probe, sys_updates>>

monitorVars == <<system, user_cache, thread_cache, process_cache, last_full_refresh>>

pureVars == <<probe, sys_updates>>

\* System::refresh_all / refresh_processes: the handle holds the table as it
\* is now; processes that are gone are dropped from it.
Refreshed_keeps_dead(handle, table) ==
    [alive |-> handle.alive \cup table.alive,
     phase |-> [p \in Pids |-> IF p \in table.alive THEN table.phase[p] ELSE handle.phase[p]]]

Refreshed(handle, table) == [alive |-> table.alive, phase |-> table.phase]

FrameNew ==
    [force_full_refresh |-> FALSE, is_full_refresh |-> FALSE, ret |-> "",
     system_processes |-> <<>>, next_chunk |-> 1, processes |-> <<>>,
     active_pids |-> {}, held |-> {}]

ObsNew ==
    [pre_cache |-> EmptyMap, sample |-> <<>>, looked |-> {}, published |-> None,
     user_failed |-> {}, threads_failed |-> {},
     full |-> FALSE, forced |-> FALSE,
     pass_start |-> 0, prev_full |-> None, last_full |-> None,
     requested |-> FALSE, gone |-> {}, gone_at_refresh |-> {},
     kill |-> [op |-> "", pid |-> 0, failed |-> FALSE, returned |-> None, attempts |-> 0],
     accepted |-> 0, dropped |-> 0, delivered |-> 0, manual |-> 0, manual_lists |-> 0,
     midcycle |-> FALSE,
     sent |-> <<>>, startup_since |-> FALSE, trigger |-> "initial", sysinfo |-> FALSE,
     chunks |-> <<>>, unyielded |-> 0,
     key |-> [name |-> "", before |-> <<>>, filter |-> <<>>, after |-> <<>>],
     lookup |-> [kind |-> "", pid |-> 0, at |-> 0, before |-> UserCacheNew(0),
                 val |-> "", queried |-> FALSE, external |-> "", stored_at |-> 0],
     stored |-> None]

ProbeNew == [seed |-> 0, n |-> 0, info |-> None, pushed |-> <<>>]

\* The state after ProcessMonitor::new and App::new, for an OS table.
InitWith(table) ==
    /\ os = table
    /\ now = 0
    /\ os_events = 0
    /\ keys = 0
    /\ system = Refreshed(table, table)
    /\ user_cache = UserCacheNew(0)
    /\ thread_cache = ThreadCacheNew(0)
    /\ process_cache = EmptyMap
    /\ last_full_refresh = 0
    /\ next_tick = 0
    /\ pc = "m_init"
    /\ frame = FrameNew
    /\ starter = "pending"
    /\ updates = <<>>
    /\ refresh_queue = 0
    /\ app = AppNew
    /\ crashed = FALSE
    /\ obs = ObsNew
    /\ ui = "drain"

\* The OS tables the program may start on: pid 1 runs, others may.
InitialTables ==
    {[alive |-> alive, phase |-> [p \in Pids |-> 0]] : alive \in {S \in SUBSET Pids : 1 \in S}}

Init ==
    /\ \E table \in InitialTables : InitWith(table)
    /\ probe = ProbeNew
    /\ sys_updates = 0

\* ------------------------------------------------------------ the channels
HasRoom_never_full == TRUE

HasRoom_closed_send_stops == ui # "closed" /\ Len(updates) < MaxChannel

\* tx.send(update).await returns: the channel has room, or the receiver is
\* dropped and the send fails at once
HasRoom == ui = "closed" \/ Len(updates) < MaxChannel

\* tx.send(update).await, once it returns; the error of a failed send is
\* dropped (`let _ =`)
Send(update) == updates' = IF ui = "closed" THEN updates ELSE Append(updates, update)

\* refresh_sender.try_send(()): dropped when the queue is full
TrySendRefresh_unbounded == refresh_queue + 1

TrySendRefresh == IF refresh_queue < REFRESH_CAP THEN refresh_queue + 1 ELSE refresh_queue

\* The monitor task is inside collect_and_send_processes.
InCycle ==
    pc \in {"c_decide", "c_loading", "g_start", "g_batch", "c_send_list", "c_send_clear"}

\* What the claims note of a try_send: whether the queue took the request,
\* and whether it took it while a pass was running.
RefreshSent(o) ==
    [o EXCEPT !.requested = TRUE,
              !.midcycle = @ \/ (refresh_queue < REFRESH_CAP /\ InCycle),
              !.accepted = IF refresh_queue < REFRESH_CAP THEN @ + 1 ELSE @,
              !.dropped = IF refresh_queue < REFRESH_CAP THEN @ ELSE @ + 1]

\* --------------------------------------------------- the task of new()
StartupStatus ==
    /\ ~crashed
    /\ starter = "pending"
    /\ HasRoom
    /\ Send(MsgLoadingStatus("Starting up..."))
    /\ starter' = "done"
    /\ obs' = [obs EXCEPT !.startup_since = ~InCycle]
    /\ UNCHANGED <<os, now, os_events, keys, monitorVars, next_tick, pc, frame,
                   refresh_queue, app, crashed, ui, pureVars>>

\* The tokio mutexes of ProcessMonitor.  frame.held is the set of those whose
\* guard the monitor task holds; Mutex::lock().await completes only while no
\* guard of the mutex is alive, and a guard dropped frees it.
Locks == {"last_full_refresh", "process_cache", "system", "user_cache", "thread_cache"}

CanLock(m) == m \notin frame.held

Acquire(held, m) == held \cup {m}

Release_guard_kept(held, m) == held

Release(held, m) == held \ {m}

\* A lock taken and dropped within one block.
Scoped(held, m) == Release(Acquire(held, m), m)

\* collect_and_send_processes returns to ret: its guard of last_full_refresh
\* is dropped; the timer branch goes on to lock system for its SystemInfo.
Returned(held, ret) ==
    IF ret = "m_sysinfo" THEN Acquire(Release(held, "last_full_refresh"), "system")
    ELSE Release(held, "last_full_refresh")

\* ------------------------------------------------- start_monitoring
\* collect_and_send_processes(force) is entered; it returns to `ret`.
CallWith(force, ret, held) ==
    /\ pc' = "c_decide"
    /\ frame' = [FrameNew EXCEPT !.force_full_refresh = force, !.ret = ret,
                                 !.held = held]

Call(force, ret) == CallWith(force, ret, frame.held)

MonitorInitStatus ==
    /\ ~crashed
    /\ pc = "m_init"
    /\ HasRoom
    /\ Send(MsgLoadingStatus("Initializing system monitor..."))
    /\ CanLock("system")
    /\ frame' = [frame EXCEPT !.held = Acquire(@, "system")]
    /\ pc' = "m_sysinfo0"
    /\ UNCHANGED <<os, now, os_events, keys, monitorVars, next_tick, starter,
                   refresh_queue, app, crashed, obs, ui, pureVars>>

MonitorInitialSystemInfo ==
    /\ ~crashed
    /\ pc = "m_sysinfo0"
    /\ HasRoom
    /\ Send(MsgSystemInfo(GlobalCpu(system), UsedMemory(system), OsTotalMemory))
    /\ CallWith(TRUE, "m_clear0", Release(frame.held, "system"))
    /\ UNCHANGED <<os, now, os_events, keys, monitorVars, next_tick, starter,
                   refresh_queue, app, crashed, obs, ui, pureVars>>

\* The initial load is done: the status is cleared and the interval created;
\* its first tick completes at once.
MonitorClearInitial ==
    /\ ~crashed
    /\ pc = "m_clear0"
    /\ HasRoom
    /\ Send(MsgLoadingStatus(""))
    /\ next_tick' = now
    /\ pc' = "m_select"
    /\ UNCHANGED <<os, now, os_events, keys, monitorVars, frame, starter,
                   refresh_queue, app, crashed, obs, ui, pureVars>>

\* select!: refresh_receiver.recv() completes, with a request or, the sender
\* dropped and the queue empty, with None
SelectRefresh_drains_queue ==
    /\ ~crashed
    /\ pc = "m_select"
    /\ refresh_queue > 0 \/ ui = "closed"
    /\ refresh_queue' = 0
    /\ obs' = [obs EXCEPT !.delivered = IF refresh_queue > 0 THEN @ + 1 ELSE @,
                          !.midcycle = FALSE,
                          !.trigger = "request"]
    /\ pc' = "m_manual"
    /\ UNCHANGED <<os, now, os_events, keys, monitorVars, next_tick, frame, starter,
                   updates, app, crashed, ui, pureVars>>

SelectRefresh ==
    /\ ~crashed
    /\ pc = "m_select"
    /\ refresh_queue > 0 \/ ui = "closed"
    /\ refresh_queue' = IF refresh_queue > 0 THEN refresh_queue - 1 ELSE 0
    /\ obs' = [obs EXCEPT !.delivered = IF refresh_queue > 0 THEN @ + 1 ELSE @,
                          !.midcycle = FALSE,
                          !.trigger = "request"]
    /\ pc' = "m_manual"
    /\ UNCHANGED <<os, now, os_events, keys, monitorVars, next_tick, frame, starter,
                   updates, app, crashed, ui, pureVars>>

MonitorManualStatus ==
    /\ ~crashed
    /\ pc = "m_manual"
    /\ HasRoom
    /\ Send(MsgLoadingStatus("Manual refresh requested..."))
    /\ Call(TRUE, "m_select")
    /\ obs' = [obs EXCEPT !.manual = IF ui = "closed" THEN @ ELSE @ + 1]
    /\ UNCHANGED <<os, now, os_events, keys, monitorVars, next_tick, starter,
                   refresh_queue, app, crashed, ui, pureVars>>

\* select!: interval_timer.tick() completes
SelectTick_skips_info ==
    /\ ~crashed
    /\ pc = "m_select"
    /\ now >= next_tick
    /\ next_tick' = next_tick + TICK_SECS
    /\ Call(FALSE, "m_select")
    /\ obs' = [obs EXCEPT !.trigger = "timer"]
    /\ UNCHANGED <<os, now, os_events, keys, monitorVars, starter, updates,
                   refresh_queue, app, crashed, ui, pureVars>>

SelectTick ==
    /\ ~crashed
    /\ pc = "m_select"
    /\ now >= next_tick
    /\ next_tick' = next_tick + TICK_SECS
    /\ Call(FALSE, "m_sysinfo")
    /\ obs' = [obs EXCEPT !.trigger = "timer"]
    /\ UNCHANGED <<os, now, os_events, keys, monitorVars, starter, updates,
                   refresh_queue, app, crashed, ui, pureVars>>

\* "Update system info every tick"
MonitorSystemInfo ==
    /\ ~crashed
    /\ pc = "m_sysinfo"
    /\ HasRoom
    /\ Send(MsgSystemInfo(GlobalCpu(system), UsedMemory(system), OsTotalMemory))
    /\ obs' = [obs EXCEPT !.sysinfo = TRUE]
    /\ frame' = [frame EXCEPT !.held = Release(@, "system")]
    /\ pc' = "m_select"
    /\ UNCHANGED <<os, now, os_events, keys, monitorVars, next_tick, starter,
                   refresh_queue, app, crashed, ui, pureVars>>

\* ------------------------------------------- collect_and_send_processes
\* What the claims note when a pass begins.
PassBegins(full) ==
    [obs EXCEPT !.pre_cache = process_cache, !.published = None, !.looked = {},
                !.user_failed = {}, !.threads_failed = {}, !.sent = <<>>,
                !.startup_since = FALSE, !.sysinfo = FALSE,
                !.chunks = <<>>, !.unyielded = 0,
                !.sample = <<>>, !.full = full, !.forced = frame.force_full_refresh,
                !.pass_start = now, !.prev_full = obs.last_full,
                !.last_full = IF full THEN Some(now) ELSE @]

\* is_full_refresh holds: the loading status is sent next.
CollectDecideFull ==
    /\ ~crashed
    /\ pc = "c_decide"
    /\ CanLock("last_full_refresh")
    /\ IsFullRefresh(frame.force_full_refresh, last_full_refresh, now)
    /\ frame' = [frame EXCEPT !.is_full_refresh = TRUE,
                              !.held = Acquire(@, "last_full_refresh")]
    /\ obs' = PassBegins(TRUE)
    /\ pc' = "c_loading"
    /\ UNCHANGED <<os, now, os_events, keys, monitorVars, next_tick, starter, updates,
                   refresh_queue, app, crashed, ui, pureVars>>

\* The status is sent, the system data refreshed in full and the time of the
\* last full refresh set.
CollectFullRefresh ==
    /\ ~crashed
    /\ pc = "c_loading"
    /\ HasRoom
    /\ Send(MsgLoadingStatus("Collecting process data..."))
    /\ CanLock("system")
    /\ frame' = [frame EXCEPT !.held = Scoped(@, "system")]
    /\ system' = Refreshed(system, os)
    /\ last_full_refresh' = now
    /\ obs' = [obs EXCEPT !.gone_at_refresh = obs.gone,
                          !.sent = Append(@, "Collecting process data...")]
    /\ pc' = "g_start"
    /\ UNCHANGED <<os, now, os_events, keys, user_cache, thread_cache, process_cache,
                   next_tick, starter, refresh_queue, app, crashed, ui, pureVars>>

\* is_full_refresh does not hold: the partial refresh of the system data.
CollectDecidePartial ==
    /\ ~crashed
    /\ pc = "c_decide"
    /\ CanLock("last_full_refresh")
    /\ ~IsFullRefresh(frame.force_full_refresh, last_full_refresh, now)
    /\ CanLock("system")
    /\ frame' = [frame EXCEPT !.is_full_refresh = FALSE,
                              !.held = Scoped(Acquire(@, "last_full_refresh"), "system")]
    /\ system' = Refreshed(system, os)
    /\ obs' = [PassBegins(FALSE) EXCEPT !.gone_at_refresh = obs.gone]
    /\ pc' = "g_start"
    /\ UNCHANGED <<os, now, os_events, keys, user_cache, thread_cache, process_cache,
                   last_full_refresh, next_tick, starter, updates, refresh_queue, app,
                   crashed, ui, pureVars>>

\* get_processes: the process data is copied out of the handle, in the
\* iteration order of its map.
GetProcessesStart ==
    /\ ~crashed
    /\ pc = "g_start"
    /\ CanLock("process_cache")
    /\ CanLock("system")
    /\ \E order \in Orders(system.alive) :
          LET system_processes ==
                  [i \in 1..Len(order) |-> SampleOf(order[i], system.phase[order[i]])]
          IN /\ frame' = [frame EXCEPT !.system_processes = system_processes,
                                       !.next_chunk = 1, !.processes = <<>>,
                                       !.active_pids = {},
                                       !.held = Scoped(Acquire(@, "process_cache"),
                                                       "system")]
             /\ obs' = [obs EXCEPT !.sample = system_processes, !.chunks = <<>>,
                                   !.unyielded = 0]
    /\ pc' = "g_batch"
    /\ UNCHANGED <<os, now, os_events, keys, monitorVars, next_tick, starter, updates,
                   refresh_queue, app, crashed, ui, pureVars>>

\* "Small delay between batches": the 5 ms sleep follows a chunk of `len`
\* processes, `size` being the batch size.
SleepAfterChunk_short_only(len, size) == len < size

SleepAfterChunk(len, size) == len = size

\* One chunk of at most `size` processes is merged into the cache; a full
\* chunk is followed by the 5 ms sleep.
GetProcessesBatchOf(size) ==
    /\ ~crashed
    /\ pc = "g_batch"
    /\ frame.next_chunk <= Len(frame.system_processes)
    /\ frame.is_full_refresh => CanLock("user_cache") /\ CanLock("thread_cache")
    /\ LET last == Min(frame.next_chunk + size - 1, Len(frame.system_processes))
           chunk == SubSeq(frame.system_processes, frame.next_chunk, last)
           st == MergeChunk([cache |-> process_cache, uc |-> user_cache,
                             tc |-> thread_cache, batch |-> <<>>,
                             active |-> frame.active_pids, looked |-> obs.looked,
                             uq |-> {}, tq |-> {}],
                            chunk, frame.is_full_refresh, now, os)
       IN /\ process_cache' = st.cache
          /\ user_cache' = st.uc
          /\ thread_cache' = st.tc
          /\ frame' = [frame EXCEPT !.processes = @ \o st.batch,
                                    !.active_pids = st.active,
                                    !.next_chunk = @ + size,
                                    !.held = IF frame.is_full_refresh
                                             THEN Scoped(Scoped(@, "user_cache"),
                                                         "thread_cache")
                                             ELSE @]
          /\ obs' = [obs EXCEPT !.looked = st.looked,
                                !.user_failed = @ \cup {p \in st.uq : PsUser(os, p) = ""},
                                !.threads_failed = @ \cup {p \in st.tq : PsNlwp(os, p) = None},
                                !.chunks = Append(@, [pids |-> [i \in 1..Len(chunk) |-> chunk[i].pid],
                                                      size |-> size,
                                                      before |-> obs.unyielded,
                                                      slept |-> SleepAfterChunk(Len(chunk), size)]),
                                !.unyielded = IF SleepAfterChunk(Len(chunk), size) THEN 0
                                              ELSE @ + Len(chunk)]
    /\ UNCHANGED <<os, now, os_events, keys, system, last_full_refresh, next_tick, pc,
                   starter, updates, refresh_queue, app, crashed, ui, pureVars>>

GetProcessesBatch == GetProcessesBatchOf(BATCH_SIZE)

\* All chunks are merged: the entries of processes not sampled are dropped.
GetProcessesRetain ==
    /\ ~crashed
    /\ pc = "g_batch"
    /\ frame.next_chunk > Len(frame.system_processes)
    /\ process_cache' = Retain(process_cache, frame.active_pids)
    /\ frame' = [frame EXCEPT !.held = Release(@, "process_cache")]
    /\ pc' = "c_send_list"
    /\ UNCHANGED <<os, now, os_events, keys, system, user_cache, thread_cache,
                   last_full_refresh, next_tick, starter, updates, refresh_queue,
                   app, crashed, obs, ui, pureVars>>

\* Where collect_and_send_processes goes on once the list is sent: "Clear
\* loading status once done", `if is_full_refresh`.
AfterSendList_never_clears(is_full_refresh, ret) == ret

AfterSendList(is_full_refresh, ret) ==
    IF is_full_refresh THEN "c_send_clear" ELSE ret

SendProcessList ==
    /\ ~crashed
    /\ pc = "c_send_list"
    /\ HasRoom
    /\ Send(MsgProcessList(frame.processes))
    /\ obs' = [obs EXCEPT !.published = Some(frame.processes),
                          !.sent = Append(@, "ProcessList"),
                          !.manual_lists = IF frame.ret = "m_select" /\ ui # "closed"
                                           THEN @ + 1 ELSE @]
    /\ pc' = AfterSendList(frame.is_full_refresh, frame.ret)
    /\ frame' = IF AfterSendList(frame.is_full_refresh, frame.ret) = frame.ret
                THEN [frame EXCEPT !.held = Returned(@, frame.ret)]
                ELSE frame
    /\ UNCHANGED <<os, now, os_events, keys, monitorVars, next_tick, starter,
                   refresh_queue, app, crashed, ui, pureVars>>

SendLoadingClear ==
    /\ ~crashed
    /\ pc = "c_send_clear"
    /\ HasRoom
    /\ Send(MsgLoadingStatus(""))
    /\ obs' = [obs EXCEPT !.sent = Append(@, "")]
    /\ pc' = frame.ret
    /\ frame' = [frame EXCEPT !.held = Returned(@, frame.ret)]
    /\ UNCHANGED <<os, now, os_events, keys, monitorVars, next_tick, starter,
                   refresh_queue, app, crashed, ui, pureVars>>

\* ------------------------------------------------------------ the consumer
\* rx.try_recv() hands over one update and main applies it.
ConsumerRecv ==
    /\ ~crashed
    /\ ui # "closed"
    /\ updates # <<>>
    /\ updates' = Tail(updates)
    /\ IF ApplyPanics(app, Head(updates))
       THEN crashed' = TRUE /\ app' = [app EXCEPT !.processes = Head(updates).list]
       ELSE crashed' = FALSE /\ app' = ApplyUpdate(app, Head(updates))
    /\ UNCHANGED <<os, now, os_events, keys, monitorVars, next_tick, pc, frame, starter,
                   refresh_queue, obs, ui, pureVars>>

\* Ctrl-R: "Request an immediate refresh", while fewer than `limit` keys
\* were pressed.
CtrlR(limit) ==
    /\ ~crashed
    /\ ui # "closed"
    /\ keys < limit
    /\ keys' = keys + 1
    /\ refresh_queue' = TrySendRefresh
    /\ obs' = RefreshSent(obs)
    /\ UNCHANGED <<os, now, os_events, monitorVars, next_tick, pc, frame, starter,
                   updates, app, crashed, ui, pureVars>>

KeyRefresh == CtrlR(MaxKeys)

\* Ctrl-K: kill_selected_process on a non-empty list (on an empty one it
\* returns at once).  `kill -9` succeeds only for a live process, which then
\* leaves the table; the OS may also refuse.  The exit status is dropped
\* (`let _ =`) and a refresh is requested either way.
KeyKill ==
    /\ ~crashed
    /\ keys < MaxKeys
    /\ app.processes # <<>>
    /\ ~IndexPanics(app)
    /\ keys' = keys + 1
    /\ LET pid == app.processes[app.selected_index + 1].pid
       IN \E outcome \in KillOutcomes(os, pid) :
             /\ os' = AfterKill(os, pid, outcome)
             /\ obs' = [RefreshSent(obs) EXCEPT
                                   !.gone = IF outcome = "killed" THEN @ \cup {pid} ELSE @,
                                   !.kill = [op |-> "kill_selected_process", pid |-> pid,
                                             failed |-> outcome # "killed",
                                             returned |-> None,
                                             attempts |-> obs.kill.attempts + 1]]
    /\ refresh_queue' = TrySendRefresh
    /\ UNCHANGED <<now, os_events, monitorVars, next_tick, pc, frame, starter, updates,
                   app, crashed, ui, pureVars>>

\* ProcessMonitor::kill_process(pid), called with any pid: the command is run
\* once and its outcome returned as a bool; nothing of the monitor is touched.
KillProcess ==
    /\ ~crashed
    /\ keys < MaxKeys
    /\ keys' = keys + 1
    /\ \E pid \in Pids : \E outcome \in KillOutcomes(os, pid) :
          /\ os' = AfterKill(os, pid, outcome)
          /\ obs' = [obs EXCEPT !.gone = IF outcome = "killed" THEN @ \cup {pid} ELSE @,
                                !.kill = [op |-> "kill_process", pid |-> pid,
                                          failed |-> outcome # "killed",
                                          returned |-> Some(kill_process(outcome)),
                                          attempts |-> obs.kill.attempts + 1]]
    /\ UNCHANGED <<now, os_events, monitorVars, next_tick, pc, frame, starter, updates,
                   refresh_queue, app, crashed, ui, pureVars>>

\* Down and Up, on a non-empty list (on an empty one they do nothing).
KeyDown ==
    /\ ~crashed
    /\ keys < MaxKeys
    /\ app.processes # <<>>
    /\ ~IndexPanics(app)
    /\ keys' = keys + 1
    /\ app' = next(app)
    /\ UNCHANGED <<os, now, os_events, monitorVars, next_tick, pc, frame, starter,
                   updates, refresh_queue, crashed, obs, ui, pureVars>>

KeyUp ==
    /\ ~crashed
    /\ keys < MaxKeys
    /\ app.processes # <<>>
    /\ ~IndexPanics(app)
    /\ keys' = keys + 1
    /\ app' = previous(app)
    /\ UNCHANGED <<os, now, os_events, monitorVars, next_tick, pc, frame, starter,
                   updates, refresh_queue, crashed, obs, ui, pureVars>>

\* The characters typed into the filter.
FilterChars == {"1"}

\* What the claims note of a key that changes the filter: the list and the
\* filter before it, the list after it.
KeyNoted(o, name, after) ==
    [o EXCEPT !.key = [name |-> name, before |-> app.processes, filter |-> app.filter,
                       after |-> after.processes]]

\* A character typed without Ctrl: add_to_filter(c).
KeyChar ==
    /\ ~crashed
    /\ keys < MaxFilterKeys
    /\ ~IndexPanics(app)
    /\ keys' = keys + 1
    /\ \E c \in FilterChars :
          /\ app' = add_to_filter(app, c)
          /\ obs' = KeyNoted(obs, "char", add_to_filter(app, c))
    /\ UNCHANGED <<os, now, os_events, monitorVars, next_tick, pc, frame, starter,
                   updates, refresh_queue, crashed, ui, pureVars>>

\* Backspace: backspace_filter().
KeyBackspace ==
    /\ ~crashed
    /\ keys < MaxFilterKeys
    /\ ~IndexPanics(app)
    /\ keys' = keys + 1
    /\ app' = backspace_filter(app)
    /\ obs' = KeyNoted(obs, "backspace", backspace_filter(app))
    /\ UNCHANGED <<os, now, os_events, monitorVars, next_tick, pc, frame, starter,
                   updates, refresh_queue, crashed, ui, pureVars>>

\* clear_filter() is called (main calls it for Esc, Ctrl-Q and Ctrl-C while
\* the filter is not empty).
ClearFilter ==
    /\ ~crashed
    /\ keys < MaxFilterKeys
    /\ keys' = keys + 1
    /\ LET r == clear_filter(app)
       IN /\ app' = r.app
          /\ refresh_queue' = IF r.refresh THEN TrySendRefresh ELSE refresh_queue
          /\ obs' = KeyNoted(IF r.refresh THEN RefreshSent(obs) ELSE obs, "clear", r.app)
    /\ UNCHANGED <<os, now, os_events, monitorVars, next_tick, pc, frame, starter,
                   updates, crashed, ui, pureVars>>

\* Ctrl-1 .. Ctrl-7: set_sort_key(key).
KeySortKey ==
    /\ ~crashed
    /\ keys < MaxSortKeys
    /\ keys' = keys + 1
    /\ \E key \in SortKeys :
          /\ app' = set_sort_key(app, key)
          /\ obs' = KeyNoted(obs, key, set_sort_key(app, key))
    /\ UNCHANGED <<os, now, os_events, monitorVars, next_tick, pc, frame, starter,
                   updates, refresh_queue, crashed, ui, pureVars>>

\* Space: toggle_sort().
KeyToggleSort ==
    /\ ~crashed
    /\ keys < MaxSortKeys
    /\ keys' = keys + 1
    /\ app' = toggle_sort(app)
    /\ obs' = KeyNoted(obs, "toggle", toggle_sort(app))
    /\ UNCHANGED <<os, now, os_events, monitorVars, next_tick, pc, frame, starter,
                   updates, refresh_queue, crashed, ui, pureVars>>

\* --------------------------------------------------------- the environment
OsSpawn ==
    /\ ~crashed
    /\ os_events < MaxOsEvents
    /\ \E p \in Pids \ os.alive :
          /\ os' = [alive |-> os.alive \cup {p}, phase |-> [os.phase EXCEPT ![p] = 0]]
          /\ obs' = [obs EXCEPT !.gone = @ \ {p}]
    /\ os_events' = os_events + 1
    /\ UNCHANGED <<now, keys, monitorVars, next_tick, pc, frame, starter, updates,
                   refresh_queue, app, crashed, ui, pureVars>>

OsExit ==
    /\ ~crashed
    /\ os_events < MaxOsEvents
    /\ \E p \in os.alive : os' = [os EXCEPT !.alive = @ \ {p}]
    /\ os_events' = os_events + 1
    /\ UNCHANGED <<now, keys, monitorVars, next_tick, pc, frame, starter, updates,
                   refresh_queue, app, crashed, obs, ui, pureVars>>

\* A live process changes: its load, state, owner, threads, command line.
OsChange ==
    /\ ~crashed
    /\ os_events < MaxOsEvents
    /\ \E p \in os.alive : os' = [os EXCEPT !.phase[p] = 1 - @]
    /\ os_events' = os_events + 1
    /\ UNCHANGED <<now, keys, monitorVars, next_tick, pc, frame, starter, updates,
                   refresh_queue, app, crashed, obs, ui, pureVars>>

\* A second passes, up to the horizon h.  The monitor is waiting in select!
\* with neither branch ready: a handler that is ready runs first.
AdvanceTime(h) ==
    /\ ~crashed
    /\ pc = "m_select"
    /\ refresh_queue = 0
    /\ now < next_tick
    /\ now < h
    /\ now' = now + 1
    /\ UNCHANGED <<os, os_events, keys, monitorVars, next_tick, pc, frame, starter,
                   updates, refresh_queue, app, crashed, obs, ui, pureVars>>

\* The steps of the monitor task but the merge of a chunk.
MonitorRest ==
    \/ StartupStatus
    \/ MonitorInitStatus
    \/ MonitorInitialSystemInfo
    \/ MonitorClearInitial
    \/ SelectRefresh
    \/ MonitorManualStatus
    \/ SelectTick
    \/ MonitorSystemInfo
    \/ CollectDecideFull
    \/ CollectFullRefresh
    \/ CollectDecidePartial
    \/ GetProcessesStart
    \/ GetProcessesRetain
    \/ SendProcessList
    \/ SendLoadingClear

Monitor ==
    \/ MonitorRest
    \/ GetProcessesBatch

\* The short run: processes come and go, the operator presses keys.
Next ==
    \/ Monitor
    \/ ConsumerRecv
    \/ KeyRefresh
    \/ KeyKill
    \/ KeyDown
    \/ KeyUp
    \/ OsSpawn
    \/ OsExit
    \/ OsChange
    \/ AdvanceTime(ShortHorizon)

Spec == Init /\ [][Next]_vars

\* The long run: the process table stays as it is, the operator may ask for
\* a refresh, the timer runs up to the long horizon.
NextCadence ==
    \/ Monitor
    \/ ConsumerRecv
    \/ KeyRefresh
    \/ AdvanceTime(LongHorizon)

SpecCadence == Init /\ [][NextCadence]_vars

\* The request run: the operator asks for refreshes faster than the monitor
\* takes them up.
NextRefresh ==
    \/ Monitor
    \/ ConsumerRecv
    \/ CtrlR(MaxRequests)
    \/ AdvanceTime(ShortHorizon)

SpecRefresh == Init /\ [][NextRefresh]_vars

\* The monitor task can make a step: the guards of the actions of Monitor
\* (a send needs room in the channel, select! a request or a tick that is
\* due; the steps of a pass need nothing).
MonitorCanStep ==
    /\ ~crashed
    /\ \/ starter = "pending" /\ HasRoom
       \/ pc \in {"m_init", "m_sysinfo0", "m_clear0", "m_manual", "m_sysinfo",
                  "c_loading", "c_send_list", "c_send_clear"} /\ HasRoom
       \/ pc = "m_select" /\ (refresh_queue > 0 \/ now >= next_tick \/ ui = "closed")
       \/ pc \in {"c_decide", "g_start", "g_batch"}

\* Weak fairness of the monitor task, WF_vars(Monitor), with the enabling
\* condition written out.
FairMonitor == []<>(~MonitorCanStep) \/ []<><<Monitor>>_vars

\* The fair run: as the monitor task is scheduled whenever it can make a step
\* and main's loop drains the update channel on every iteration, neither
\* waits forever for a step it can make.
NextFair ==
    \/ Monitor
    \/ ConsumerRecv
    \/ CtrlR(MaxFairRequests)
    \/ AdvanceTime(ShortHorizon)

SpecFair == Init /\ [][NextFair]_vars /\ FairMonitor /\ WF_vars(ConsumerRecv)

\* The batch run: the short run with no key but Ctrl-R, the sample merged in
\* chunks of MaxBatch processes.
NextBatches ==
    \/ MonitorRest
    \/ GetProcessesBatchOf(MaxBatch)
    \/ ConsumerRecv
    \/ KeyRefresh
    \/ OsSpawn
    \/ OsExit
    \/ OsChange
    \/ AdvanceTime(ShortHorizon)

SpecBatches == Init /\ [][NextBatches]_vars

\* main returns: app, with the sender of refresh requests, and the receiver of
\* updates, with the updates it holds, are dropped.
MainReturns ==
    /\ ~crashed
    /\ ui # "closed"
    /\ ui' = "closed"
    /\ updates' = <<>>
    /\ app' = AppNew
    /\ UNCHANGED <<os, now, os_events, keys, monitorVars, next_tick, pc, frame, starter,
                   refresh_queue, crashed, obs, pureVars>>

\* Ctrl-R with a refresh channel of MaxRefreshQueue places in place of 10.
CtrlRSmallQueue ==
    /\ ~crashed
    /\ ui # "closed"
    /\ keys < MaxFairRequests
    /\ keys' = keys + 1
    /\ refresh_queue' = IF refresh_queue < MaxRefreshQueue THEN refresh_queue + 1
                        ELSE refresh_queue
    /\ obs' = [obs EXCEPT !.requested = TRUE,
                          !.midcycle = @ \/ (refresh_queue < MaxRefreshQueue /\ InCycle),
                          !.accepted = IF refresh_queue < MaxRefreshQueue THEN @ + 1 ELSE @,
                          !.dropped = IF refresh_queue < MaxRefreshQueue THEN @ ELSE @ + 1]
    /\ UNCHANGED <<os, now, os_events, monitorVars, next_tick, pc, frame, starter,
                   updates, app, crashed, ui, pureVars>>

\* A process exits after the first pass has sampled it and before the pass
\* has looked it up.
ProcessVanishes == OsExit /\ pc = "g_batch" /\ frame.ret = "m_clear0"

\* main returns while the monitor task waits in select!, before any key was
\* pressed.
MainReturnsEarly == MainReturns /\ pc = "m_select" /\ keys = 0 /\ os_events = 0

\* The run of the collector's loop: more requests come than the queue takes,
\* a process may vanish from under a pass, main may return; the monitor
\* task is scheduled, main drains the channel while it runs, time passes.
NextLive ==
    \/ Monitor
    \/ ConsumerRecv
    \/ CtrlRSmallQueue
    \/ ProcessVanishes
    \/ MainReturnsEarly
    \/ AdvanceTime(ShortHorizon)

SpecLive ==
    /\ Init /\ [][NextLive]_vars
    /\ FairMonitor /\ WF_vars(ConsumerRecv) /\ WF_vars(AdvanceTime(ShortHorizon))

\* The filter run: the operator types into the filter, takes characters
\* back and clears it, on a process table that stays as it is; the monitor
\* task is scheduled and main drains the channel.
NextFilter ==
    \/ Monitor
    \/ ConsumerRecv
    \/ KeyChar
    \/ KeyBackspace
    \/ ClearFilter
    \/ AdvanceTime(ShortHorizon)

SpecFilter == Init /\ [][NextFilter]_vars /\ FairMonitor /\ WF_vars(ConsumerRecv)

\* The late-comer run: a process is spawned while the timer drives the
\* passes, early enough for the full refresh after it to fall within the
\* horizon, and the operator may ask for a refresh; the monitor task is
\* scheduled, main drains the channel and time passes.
SpawnInTime == OsSpawn /\ now + FULL_REFRESH_SECS + TICK_SECS <= LateHorizon

\* The operator asks for a refresh on seeing a new process with the
\* placeholder in the list, before the next pass.
RefreshOnPlaceholder ==
    /\ KeyRefresh
    /\ updates = <<>>
    /\ pc = "m_select"
    /\ \E i \in 1..Len(app.processes) :
          /\ app.processes[i].user = "fetching..."
          /\ Len(app.processes[i].cpu_history) = 1

NextLateComer ==
    \/ Monitor
    \/ ConsumerRecv
    \/ SpawnInTime
    \/ RefreshOnPlaceholder
    \/ AdvanceTime(LateHorizon)

SpecLateComer ==
    /\ Init /\ [][NextLateComer]_vars
    /\ FairMonitor /\ WF_vars(ConsumerRecv) /\ WF_vars(AdvanceTime(LateHorizon))

\* The sort run: the operator changes the sort key and the direction, or
\* asks for a refresh first, while the initial load, the pass of the first
\* tick and the pass asked for go on and a process changes.
NextSort ==
    \/ Monitor
    \/ ConsumerRecv
    \/ KeySortKey
    \/ KeyToggleSort
    \/ KeyRefresh
    \/ OsChange

SpecSort == Init /\ [][NextSort]_vars

\* The stalled run: the monitor task is scheduled and time passes, while the
\* consumer may stop draining the update channel at any moment.
SpecStalled ==
    Init /\ [][NextFair]_vars /\ FairMonitor /\ WF_vars(AdvanceTime(ShortHorizon))

\* --------------------------------------------------------- the lookup run
\* A run follows the lookups of one of the two metadata caches.
Follows(kind) == obs.lookup.kind \in {"", kind}

\* What the claims note of the cache the run follows: when the oldest of its
\* entries was stored (None for an empty cache).  `before` and `after` are the
\* cache before and after a lookup of pid at time t.
StoredAfter(stored, before, after, pid, queried, t) ==
    IF DOMAIN after = {} THEN None
    ELSE IF stored # None /\ (DOMAIN before \cap DOMAIN after) \ (IF queried THEN {pid} ELSE {}) # {}
    THEN stored
    ELSE Some(t)

\* A time at or before which the value a lookup returns was stored: now, if
\* ps was run for it; otherwise when the oldest entry of the cache was stored.
StoredAt(stored, queried, t) ==
    IF ~queried /\ stored # None THEN stored[1] ELSE t

\* user_cache.get_user(pid) is called, as a full pass calls it for a process
\* of its sample.
LookupUser ==
    /\ Follows("user")
    /\ \E pid \in Pids :
          LET r == get_user(user_cache, pid, now, os)
          IN /\ user_cache' = r.uc
             /\ obs' = [obs EXCEPT !.lookup =
                            [kind |-> "user", pid |-> pid, at |-> now,
                             before |-> user_cache, val |-> r.val,
                             queried |-> r.queried, external |-> PsUser(os, pid),
                             stored_at |-> StoredAt(obs.stored, r.queried, now)],
                          !.stored = StoredAfter(@, user_cache.cache, r.uc.cache, pid,
                                                 r.queried, now)]
    /\ UNCHANGED <<os, now, os_events, keys, system, thread_cache, process_cache,
                   last_full_refresh, next_tick, pc, frame, starter, updates,
                   refresh_queue, app, crashed, ui, pureVars>>

\* thread_cache.get_thread_count(pid) is called likewise.
LookupThreads ==
    /\ Follows("threads")
    /\ \E pid \in Pids :
          LET r == get_thread_count(thread_cache, pid, now, os)
          IN /\ thread_cache' = r.tc
             /\ obs' = [obs EXCEPT !.lookup =
                            [kind |-> "threads", pid |-> pid, at |-> now,
                             before |-> thread_cache, val |-> r.val,
                             queried |-> r.queried, external |-> PsNlwp(os, pid),
                             stored_at |-> StoredAt(obs.stored, r.queried, now)],
                          !.stored = StoredAfter(@, thread_cache.cache, r.tc.cache, pid,
                                                 r.queried, now)]
    /\ UNCHANGED <<os, now, os_events, keys, system, user_cache, process_cache,
                   last_full_refresh, next_tick, pc, frame, starter, updates,
                   refresh_queue, app, crashed, ui, pureVars>>

\* A second passes between two lookups.
ClockTick ==
    /\ now < MaxLookupTime
    /\ now' = now + 1
    /\ UNCHANGED <<os, os_events, keys, monitorVars, next_tick, pc, frame, starter,
                   updates, refresh_queue, app, crashed, obs, ui, pureVars>>

NextLookup ==
    \/ LookupUser
    \/ LookupThreads
    \/ ClockTick
    \/ OsSpawn
    \/ OsExit
    \/ OsChange

SpecLookup == Init /\ [][NextLookup]_vars

\* ------------------------------------------------------- main's loop
\* `while let Ok(update) = rx.try_recv()`: an update is there and is applied.
UiTryRecv ==
    /\ ui = "drain"
    /\ ConsumerRecv

UiDrainEnds_recv_await ==
    /\ FALSE
    /\ UNCHANGED vars

\* try_recv() finds the channel empty: the drain ends, the frame is drawn if
\* one is due, and the loop goes on to poll for events.
UiDrainEnds ==
    /\ ~crashed
    /\ ui = "drain"
    /\ updates = <<>>
    /\ ui' = "poll"
    /\ UNCHANGED <<os, now, os_events, keys, monitorVars, next_tick, pc, frame, starter,
                   updates, refresh_queue, app, crashed, obs, pureVars>>

\* event::poll(16 ms) returns: no key was pressed, or Ctrl-R was (while fewer
\* than MaxFairRequests keys were); the iteration is over.
UiPoll ==
    /\ ~crashed
    /\ ui = "poll"
    /\ ui' = "drain"
    /\ \/ UNCHANGED <<keys, refresh_queue, obs>>
       \/ /\ keys < MaxFairRequests
          /\ keys' = keys + 1
          /\ refresh_queue' = TrySendRefresh
          /\ obs' = RefreshSent(obs)
    /\ UNCHANGED <<os, now, os_events, monitorVars, next_tick, pc, frame, starter,
                   updates, app, crashed, pureVars>>

UiLoop ==
    \/ UiTryRecv
    \/ UiDrainEnds
    \/ UiPoll

\* The loop run: main's loop is followed through its iterations and goes on
\* whenever it can; the monitor task may make a step or not.
NextUi ==
    \/ Monitor
    \/ UiLoop
    \/ AdvanceTime(ShortHorizon)

SpecUi == Init /\ [][NextUi]_vars /\ WF_vars(UiLoop)

\* The termination run: processes are terminated through the monitor's
\* kill_process and through the consumer's kill_selected_process while the
\* collector runs.
NextTerminate ==
    \/ Monitor
    \/ ConsumerRecv
    \/ KeyKill
    \/ KillProcess
    \/ OsChange
    \/ AdvanceTime(ShortHorizon)

SpecTerminate == Init /\ [][NextTerminate]_vars

\* ------------------------------------------------------- the history run
\* The k-th sample of input stream `seed`: k = 0 is handed to ProcessInfo::new,
\* k >= 1 to the k-th update_history.
StreamCpu(seed, k) == (3 * seed + (seed + 1) * k) % 11

StreamMemory(seed, k) == (seed + 2 * k) % 13

InitHistory ==
    /\ InitWith([alive |-> {1}, phase |-> [p \in Pids |-> 0]])
    /\ sys_updates = 0
    /\ \E seed \in 0..MaxSeed :
          probe = [seed |-> seed, n |-> 0,
                   info |-> Some(ProcessInfoNew(1, "init", StreamCpu(seed, 0),
                                                StreamMemory(seed, 0), "Running", "root",
                                                0, <<"init">>, None, None, 0)),
                   pushed |-> <<[cpu |-> StreamCpu(seed, 0), memory |-> StreamMemory(seed, 0)]>>]

HistoryUpdate ==
    /\ probe.n < MaxUpdates
    /\ LET k == probe.n + 1
           cpu == StreamCpu(probe.seed, k)
           memory == StreamMemory(probe.seed, k)
       IN probe' = [probe EXCEPT !.n = k,
                                 !.info = Some(update_history(probe.info[1], cpu, memory, now)),
                                 !.pushed = Append(@, [cpu |-> cpu, memory |-> memory])]
    /\ UNCHANGED <<os, now, os_events, keys, monitorVars, next_tick, pc, frame, starter,
                   updates, refresh_queue, app, crashed, obs, ui, sys_updates>>

NextHistory == HistoryUpdate

SpecHistory == InitHistory /\ [][NextHistory]_vars

\* ---------------------------------------------- the system-resources run
\* The consumer applies a SystemInfo update with arbitrary counters.
SystemInfoApplied ==
    /\ sys_updates < MaxSysUpdates
    /\ sys_updates' = sys_updates + 1
    /\ \E cpu \in 0..MaxCounter, used \in 0..MaxCounter, total \in 0..MaxCounter :
          app' = ApplyUpdate(app, MsgSystemInfo(cpu, used, total))
    /\ UNCHANGED <<os, now, os_events, keys, monitorVars, next_tick, pc, frame, starter,
                   updates, refresh_queue, crashed, obs, ui, probe>>

NextSystem == SystemInfoApplied

SpecSystem == Init /\ [][NextSystem]_vars

\* ------------------------------------------- the system-history run
\* The total memory of the k-th system-info update of stream `seed`.
StreamTotal(seed, k) == 20 + ((seed + k) % 3)

InitSystemHistory ==
    /\ InitWith([alive |-> {1}, phase |-> [p \in Pids |-> 0]])
    /\ sys_updates = 0
    /\ \E seed \in 0..MaxSeed :
          probe = [seed |-> seed, n |-> 0, info |-> None, pushed |-> <<>>]

\* main applies the next SystemInfo update of the stream.
SystemHistoryUpdate ==
    /\ probe.n < MaxUpdates
    /\ LET k == probe.n + 1
           cpu == StreamCpu(probe.seed, k)
           used == StreamMemory(probe.seed, k)
           total == StreamTotal(probe.seed, k)
       IN /\ app' = ApplyUpdate(app, MsgSystemInfo(cpu, used, total))
          /\ probe' = [probe EXCEPT !.n = k,
                                    !.pushed = Append(@, [cpu |-> cpu,
                                                          memory |-> MemoryPercent(used, total)])]
    /\ UNCHANGED <<os, now, os_events, keys, monitorVars, next_tick, pc, frame, starter,
                   updates, refresh_queue, crashed, obs, ui, sys_updates>>

NextSystemHistory == SystemHistoryUpdate

SpecSystemHistory == InitSystemHistory /\ [][NextSystemHistory]_vars

\* =================================================================== claims
\* A pass has published its list and the next pass has not begun.
Published == obs.published # None

PublishedList == obs.published[1]

PidSeq(list) == [i \in 1..Len(list) |-> list[i].pid]

PidSet(list) == {list[i].pid : i \in 1..Len(list)}

\* The element of a list (a sample, a published list) for a pid in it.
EntryOf(list, pid) == list[CHOOSE i \in 1..Len(list) : list[i].pid = pid]

\* The pids the pass saw for the first time.
FirstSighted == PidSet(obs.sample) \ DOMAIN obs.pre_cache

\* The pids the pass saw again.
SeenAgain == PidSet(obs.sample) \cap DOMAIN obs.pre_cache

Resolved(user) == user \notin {"fetching...", ""}

C2_CacheEviction ==
    Published => DOMAIN process_cache = PidSet(obs.sample)

\* A pass has ended that did not see a pid cached before it.
C2_Witness ==
    /\ Published
    /\ (DOMAIN obs.pre_cache) \ PidSet(obs.sample) # {}
    /\ PidSet(obs.sample) # {}

\* C3: a partial pass leaves status, user, threads, parent and cmd of a pid
\* it saw again as they were before the pass, and updates cpu, memory and both
\* histories, in the cache and in the published snapshot alike.
C3_PartialNonRegression ==
    (Published /\ ~obs.full) =>
        \A pid \in SeenAgain :
            LET before == obs.pre_cache[pid]
                after == process_cache[pid]
                seen == EntryOf(obs.sample, pid)
            IN /\ after.status = before.status
               /\ after.user = before.user
               /\ after.threads = before.threads
               /\ after.parent = before.parent
               /\ after.cmd = before.cmd
               /\ after.cpu_usage = seen.cpu_usage
               /\ after.memory = seen.memory
               /\ after.cpu_history = LastN(Append(before.cpu_history, seen.cpu_usage), HISTORY_CAP)
               /\ after.memory_history = LastN(Append(before.memory_history, seen.memory), HISTORY_CAP)
               /\ EntryOf(PublishedList, pid) = after

\* A partial pass has seen again a process with a resolved user whose status,
\* owner and load have changed in the OS since it was cached.
C3_Witness ==
    /\ Published
    /\ ~obs.full
    /\ \E pid \in SeenAgain :
          /\ Resolved(obs.pre_cache[pid].user)
          /\ obs.pre_cache[pid].user # "unknown"
          /\ ConvertStatus(EntryOf(obs.sample, pid).status) # obs.pre_cache[pid].status
          /\ EntryOf(obs.sample, pid).cpu_usage # obs.pre_cache[pid].cpu_usage

\* C8: the list a pass publishes holds one snapshot for each pid of the pass's
\* sample and no other, in the order of the sample.
C8_PublishedExactness ==
    Published =>
        /\ PidSeq(PublishedList) = PidSeq(obs.sample)
        /\ \A i, j \in 1..Len(PublishedList) :
               PublishedList[i].pid = PublishedList[j].pid => i = j

\* A pass that no longer saw a pid cached before it has published a list.
C8_Witness ==
    /\ Published
    /\ Len(PublishedList) >= 1
    /\ (DOMAIN obs.pre_cache) \ PidSet(PublishedList) # {}

\* C9: after a full pass every published snapshot has a resolved user (a user
\* name or "unknown", never "fetching...") and the list is as long as the
\* sample.
C9_FullCycle ==
    (Published /\ obs.full) =>
        /\ Len(PublishedList) = Len(obs.sample)
        /\ \A i \in 1..Len(PublishedList) : Resolved(PublishedList[i].user)

\* The first full pass over the sample {1: "init", 2: "shell"} has published
\* two snapshots with user names.
C9_Witness ==
    /\ Published
    /\ obs.full
    /\ obs.pre_cache = EmptyMap
    /\ Len(PublishedList) = 2
    /\ \A i \in 1..2 : PublishedList[i].user \in {"root", "alice"}
    /\ {PublishedList[i].name : i \in 1..2} = {"init", "shell"}

\* C10: a pid terminated with success (it left the OS table and was not handed
\* out again) before a pass refreshed the system data is not in the list that
\* pass publishes, and the process cache holds no entry for it when the pass
\* has ended.
C10_TerminateThenRefresh ==
    Published =>
        \A pid \in obs.gone_at_refresh :
            /\ pid \notin PidSet(PublishedList)
            /\ pid \notin DOMAIN process_cache

\* A pass has ended that refreshed after the termination of a pid that was
\* cached before the pass.
C10_Witness ==
    /\ Published
    /\ obs.gone_at_refresh \cap DOMAIN obs.pre_cache # {}

\* The cpu and memory values handed to the probe, in arrival order.
PushedCpu == [i \in 1..Len(probe.pushed) |-> probe.pushed[i].cpu]

PushedMemory == [i \in 1..Len(probe.pushed) |-> probe.pushed[i].memory]

\* C4: neither history ever holds more than 60 entries; after 60 or more calls
\* of update_history each holds exactly 60, the last 60 values pushed, in
\* arrival order (what overflows is the oldest).
C4_HistoryBound ==
    probe.info # None =>
        LET info == probe.info[1]
        IN /\ Len(info.cpu_history) <= HISTORY_CAP
           /\ Len(info.memory_history) <= HISTORY_CAP
           /\ info.cpu_history = LastN(PushedCpu, HISTORY_CAP)
           /\ info.memory_history = LastN(PushedMemory, HISTORY_CAP)
           /\ probe.n >= HISTORY_CAP =>
                 /\ Len(info.cpu_history) = HISTORY_CAP
                 /\ Len(info.memory_history) = HISTORY_CAP
                 /\ info.cpu_history = SubSeq(PushedCpu, probe.n - HISTORY_CAP + 2, probe.n + 1)
                 /\ info.memory_history = SubSeq(PushedMemory, probe.n - HISTORY_CAP + 2, probe.n + 1)

\* More than 60 calls were made: values pushed by update_history overflowed.
C4_Witness ==
    /\ probe.info # None
    /\ probe.n > HISTORY_CAP
    /\ Len(probe.info[1].cpu_history) = HISTORY_CAP
    /\ probe.info[1].cpu_history[1] # PushedCpu[1]

\* C5, as claimed: whatever SystemInfo updates the consumer has applied, one
\* reporting a total of 0 among them, total_memory is not zero and no
\* percentage in memory_history is the result of a division by zero.
C5_DivisionSafety ==
    /\ app.system_resources.total_memory # 0
    /\ memory_percentage(app.system_resources) >= 0
    /\ \A i \in 1..Len(app.system_resources.memory_history) :
           app.system_resources.memory_history[i] >= 0

C7_FullRefreshTrigger ==
    /\ obs.full <=>
           \/ obs.forced
           \/ obs.prev_full # None /\ obs.pass_start - obs.prev_full[1] > FULL_REFRESH_SECS
    /\ (obs.full /\ ~obs.forced) => obs.pass_start - obs.prev_full[1] > TICK_SECS

\* After a requested refresh, a tick more than 10 s later has started a full
\* refresh, and the ticks in between partial ones.
C7_Witness ==
    /\ obs.requested
    /\ obs.full
    /\ ~obs.forced
    /\ obs.prev_full # None
    /\ obs.prev_full[1] \notin {0, FULL_REFRESH_SECS + TICK_SECS}

\* A step in which a termination was attempted and failed.
KillFailedStep == obs'.kill # obs.kill /\ obs'.kill.failed

RequestStep == obs'.accepted + obs'.dropped = obs.accepted + obs.dropped + 1

\* C12: a refresh request is sent in one step whatever the queue holds; the
\* queue takes it if it holds fewer than 10 requests and the request is
\* dropped otherwise, nothing but the queue changing either way; the monitor
\* takes up each request the queue took at most once (requests taken up and
\* requests waiting add up to the requests the queue took, and a manual
\* refresh is started only for a request taken up).
C12_FireAndForget ==
    /\ [](/\ refresh_queue <= REFRESH_CAP
          /\ obs.delivered + refresh_queue = obs.accepted
          /\ obs.manual <= obs.delivered
          /\ obs.delivered <= obs.manual + 1)
    /\ [][RequestStep =>
             /\ refresh_queue' = (IF refresh_queue < REFRESH_CAP
                                  THEN refresh_queue + 1 ELSE refresh_queue)
             /\ obs'.dropped = obs.dropped + (IF refresh_queue < REFRESH_CAP THEN 0 ELSE 1)
             /\ UNCHANGED <<os, now, monitorVars, next_tick, pc, frame, starter,
                            updates, app, crashed>>]_vars

\* A request was sent while the queue held 10 and was dropped; the monitor
\* had taken up none yet.
C12_Witness ==
    /\ refresh_queue = REFRESH_CAP
    /\ obs.dropped = 1
    /\ obs.accepted = REFRESH_CAP
    /\ obs.delivered = 0

\* The pass a taken-up request started has sent its list.
ManualListSent == pc = "c_send_clear" /\ frame.ret = "m_select" /\ frame.is_full_refresh

\* C13: every request the queue took is taken up by the monitor; the monitor
\* then starts collect_and_send_processes(true) with no timer pass and no
\* wait in between, that pass is a full refresh, and its list is sent.
C13_RequestConsumed ==
    /\ \A k \in 1..MaxFairRequests : (obs.accepted >= k) ~> (obs.delivered >= k)
    /\ (pc = "m_manual") ~> ManualListSent
    /\ [][/\ obs'.delivered > obs.delivered => pc' = "m_manual"
          /\ (pc = "m_manual" /\ pc' # pc) =>
                 pc' = "c_decide" /\ frame'.force_full_refresh /\ now' = now
          /\ (pc = "c_decide" /\ frame.force_full_refresh /\ pc' # pc) =>
                 pc' = "c_loading" /\ frame'.is_full_refresh /\ now' = now]_vars

\* The pass started by a request has published its list; it began before the
\* next tick of the timer was due.
C13_Witness ==
    /\ Published
    /\ obs.forced
    /\ obs.full
    /\ obs.manual >= 1
    /\ frame.ret = "m_select"
    /\ obs.pass_start < next_tick

\* All chunks of the pass's sample are merged.
MergesComplete ==
    /\ frame.next_chunk > Len(frame.system_processes)
    /\ frame.active_pids = PidSet(obs.sample)
    /\ PidSeq(frame.processes) = PidSeq(obs.sample)

\* C14: in a collection cycle a step that merges a chunk removes no entry of
\* the process cache; entries are removed in one step only, taken when every
\* chunk is merged and followed by the publication; and the ProcessList is
\* sent only when all merges are complete and the cache holds no entry for a
\* pid absent from the sample.
C14_MergeEvictPublish ==
    /\ [](pc \in {"c_send_list", "c_send_clear"} =>
             MergesComplete /\ DOMAIN process_cache = PidSet(obs.sample))
    /\ [][/\ ~(DOMAIN process_cache \subseteq DOMAIN process_cache') =>
                 MergesComplete /\ pc = "g_batch" /\ pc' = "c_send_list"
          /\ (obs.published = None /\ obs'.published # None) =>
                 /\ MergesComplete
                 /\ DOMAIN process_cache = PidSet(obs.sample)
                 /\ updates' = Append(updates, MsgProcessList(frame.processes))
          /\ (pc = "g_batch" /\ pc' = "g_batch") =>
                 DOMAIN process_cache \subseteq DOMAIN process_cache']_vars

\* A pass over a cache that held entries has merged its sample of two
\* processes in two chunks, and has published its list.
C14_Witness ==
    /\ Published
    /\ Len(obs.sample) = 2 * MaxBatch
    /\ frame.next_chunk = 1 + 2 * MaxBatch
    /\ obs.pre_cache # EmptyMap
    /\ DOMAIN process_cache = PidSet(obs.sample)

\* Where the monitor task awaits tx.send(..).
SendPositions ==
    {"m_init", "m_sysinfo0", "m_clear0", "m_manual", "m_sysinfo",
     "c_loading", "c_send_list", "c_send_clear"}

\* A send of the monitor task waits: the update channel is full.
PendingPublish == pc \in SendPositions /\ Len(updates) >= MaxChannel

\* C15, as claimed: a send of the collector that waits on a full update
\* channel completes or is given up, also when the consumer has stopped
\* draining the channel.
C15_BoundedPublish == PendingPublish ~> ~PendingPublish

\* C15, amended: a send that waits on a full update channel is neither given
\* up nor timed out (the collector stays at the send, its state as it is,
\* until the consumer has taken an update out), and it completes if the
\* consumer keeps draining the channel.
C15_PublishWaitsForRoom ==
    /\ [](Len(updates) <= MaxChannel)
    /\ [][PendingPublish =>
             /\ UNCHANGED <<pc, frame, monitorVars, next_tick>>
             /\ updates' \in {updates, Tail(updates)}]_vars
    /\ WF_vars(ConsumerRecv) => (PendingPublish ~> ~PendingPublish)

\* The ProcessList of a pass started by the timer waits on a full channel.
C15_Witness ==
    /\ pc = "c_send_list"
    /\ frame.ret = "m_sysinfo"
    /\ Len(updates) = MaxChannel

\* C16: main's loop has a step to make wherever the monitor task stands and
\* whatever the update channel holds; the drain ends only on an empty channel
\* and then at once, leaving the App alone; so every drain ends and every
\* iteration of the loop completes, whether the monitor task goes on or not.
C16_ConsumerNeverWaits ==
    /\ [](ui = "drain" => (IF updates = <<>> THEN ENABLED UiDrainEnds ELSE ENABLED UiTryRecv))
    /\ [](ui = "poll" => ENABLED UiPoll)
    /\ [][ui' # ui =>
             /\ app' = app
             /\ UNCHANGED <<pc, frame, monitorVars, updates>>
             /\ ui = "drain" => updates = <<>>]_vars
    /\ (ui = "drain") ~> (ui = "poll")
    /\ (ui = "poll") ~> (ui = "drain")

\* A drain has ended and the loop gone on to poll while the monitor task is
\* in the middle of a pass that began with entries in the cache.
C16_Witness ==
    /\ ui = "poll"
    /\ pc = "g_batch"
    /\ obs.pre_cache # EmptyMap
    /\ app.processes # <<>>

\* C17, as claimed: when a full pass has ended, the cached and the published
\* snapshot of every pid the pass saw again carry the name, run time, status,
\* parent and cmd of the pass's sample and the user and thread count the
\* pass looked up.
C17_FullRefreshUpdatesAll ==
    (Published /\ obs.full) =>
        \A pid \in SeenAgain :
            LET after == process_cache[pid]
                seen == EntryOf(obs.sample, pid)
            IN /\ EntryOf(PublishedList, pid) = after
               /\ after.name = seen.name
               /\ after.start_time = seen.run_time
               /\ after.status = ConvertStatus(seen.status)
               /\ after.parent = seen.parent
               /\ after.cmd = seen.cmd
               /\ pid \in obs.looked
               /\ Resolved(after.user)

\* The last lookup of the lookup run: the lifetime of its cache, the age of
\* the cache when it was made, whether the cache held the pid, the cache as
\* the lookup left it, and what a hit and what a query return.
LookupMade == obs.lookup.kind # ""

LookupTtl == IF obs.lookup.kind = "user" THEN USER_TTL_SECS ELSE THREAD_TTL_SECS

LookupAge == obs.lookup.at - obs.lookup.before.last_refresh

LookupPresent == obs.lookup.pid \in DOMAIN obs.lookup.before.cache

LookupAfter == IF obs.lookup.kind = "user" THEN user_cache ELSE thread_cache

LookupCached ==
    IF obs.lookup.kind = "user" THEN obs.lookup.before.cache[obs.lookup.pid]
    ELSE Some(obs.lookup.before.cache[obs.lookup.pid])

LookupQueried ==
    IF obs.lookup.kind = "user"
    THEN (IF obs.lookup.external = "" THEN "unknown" ELSE obs.lookup.external)
    ELSE obs.lookup.external

\* What a lookup does on a hit and on a miss, `hit` given.
LookupRule(hit) ==
    /\ obs.lookup.queried <=> ~hit
    /\ hit => obs.lookup.val = LookupCached
    /\ ~hit =>
          /\ obs.lookup.val = LookupQueried
          /\ obs.lookup.kind = "user" =>
                 /\ obs.lookup.pid \in DOMAIN LookupAfter.cache
                 /\ LookupAfter.cache[obs.lookup.pid] = obs.lookup.val
          /\ (obs.lookup.kind = "threads" /\ obs.lookup.val # None) =>
                 /\ obs.lookup.pid \in DOMAIN LookupAfter.cache
                 /\ LookupAfter.cache[obs.lookup.pid] = obs.lookup.val[1]

\* C18, as claimed: a lookup returns the cached value without running ps
\* exactly if the cache holds the pid and its age is less than the lifetime
\* (30 s, 5 s); at an age equal to or greater than the lifetime it runs ps,
\* stores what it got and returns it.
C18_HitBelowTtl ==
    LookupMade => LookupRule(LookupPresent /\ LookupAge < LookupTtl)

\* C18, amended: a lookup returns the cached value without running ps
\* exactly if the cache holds the pid and its age is at most the lifetime
\* (30 s, 5 s); at a greater age, or for a pid the cache does not hold, it
\* runs ps, stores what it got (a user name or "unknown"; a thread count if
\* one was got) and returns it.
C18_HitUpToTtl ==
    LookupMade => LookupRule(LookupPresent /\ LookupAge <= LookupTtl)

\* A user was looked up when the cache was exactly 30 s old: the cached name
\* was returned, which is no longer the one ps would print.
C18_Witness ==
    /\ obs.lookup.kind = "user"
    /\ LookupAge = USER_TTL_SECS
    /\ LookupPresent
    /\ ~obs.lookup.queried
    /\ obs.lookup.val = LookupCached
    /\ obs.lookup.val # LookupQueried

\* C19: a lookup that finds its cache older than the lifetime removes every
\* entry of the cache, whatever the pid, and sets the cache's time stamp to
\* the time of the lookup before it goes on, so that the cache then holds
\* at most the pid looked up; a lookup that finds the cache no older than
\* that leaves the time stamp and every entry as they are; and a lookup adds
\* an entry for no pid but the one looked up.
C19_WholeCacheInvalidation ==
    LookupMade =>
        /\ DOMAIN LookupAfter.cache \subseteq DOMAIN obs.lookup.before.cache \cup {obs.lookup.pid}
        /\ IF LookupAge > LookupTtl
           THEN /\ LookupAfter.last_refresh = obs.lookup.at
                /\ DOMAIN LookupAfter.cache \subseteq {obs.lookup.pid}
                /\ obs.lookup.queried
           ELSE /\ LookupAfter.last_refresh = obs.lookup.before.last_refresh
                /\ \A p \in DOMAIN obs.lookup.before.cache :
                       /\ p \in DOMAIN LookupAfter.cache
                       /\ LookupAfter.cache[p] = obs.lookup.before.cache[p]

\* A thread count was looked up in a cache older than 5 s that held both
\* pids: the cache now holds the pid looked up only, stamped with the time of
\* the lookup.
C19_Witness ==
    /\ obs.lookup.kind = "threads"
    /\ LookupAge > THREAD_TTL_SECS
    /\ DOMAIN obs.lookup.before.cache = Pids
    /\ DOMAIN thread_cache.cache = {obs.lookup.pid}
    /\ thread_cache.last_refresh = obs.lookup.at
    /\ obs.lookup.at > obs.lookup.before.last_refresh

\* C20: a pid for which ps printed no user name in a full pass is cached and
\* published with the user "unknown", one for which it printed no thread
\* count with no thread count; the pass goes on through its sample all the
\* same, and its list, a snapshot for each pid of the sample, is published.
C20_LookupFailureContained ==
    /\ pc \in {"c_send_list", "c_send_clear"} =>
           PidSeq(frame.processes) = PidSeq(obs.sample)
    /\ Published =>
           /\ PidSeq(PublishedList) = PidSeq(obs.sample)
           /\ \A pid \in obs.user_failed :
                  /\ EntryOf(PublishedList, pid).user = "unknown"
                  /\ process_cache[pid].user = "unknown"
           /\ \A pid \in obs.threads_failed :
                  /\ EntryOf(PublishedList, pid).threads = None
                  /\ process_cache[pid].threads = None

\* A full pass has published two snapshots: for one pid both queries failed,
\* for the other, merged after it, both gave an answer.
C20_Witness ==
    /\ Published
    /\ obs.full
    /\ Len(PublishedList) = 2
    /\ PublishedList[1].pid \in obs.user_failed \cap obs.threads_failed
    /\ PublishedList[2].pid \notin obs.user_failed \cup obs.threads_failed
    /\ PublishedList[2].user \notin {"unknown", "fetching..."}
    /\ PublishedList[2].threads # None

\* ------------------------------------------------------------ C21
\* The external query of the last lookup gave nothing: ps printed no user
\* name, or no thread count that parses.
LookupFailed ==
    /\ LookupMade
    /\ obs.lookup.queried
    /\ IF obs.lookup.kind = "user" THEN obs.lookup.external = ""
       ELSE obs.lookup.external = None

\* The step is a lookup of the pid the last lookup was about, made in a cache
\* that is not older than its lifetime, so that it clears nothing.
SamePidLookedUpAgain ==
    /\ obs'.lookup # obs.lookup
    /\ obs'.lookup.pid = obs.lookup.pid
    /\ obs'.lookup.at - obs'.lookup.before.last_refresh <= LookupTtl

\* C21: in both caches a lookup whose external query failed leaves its
\* result in the cache, and a second lookup of the same pid before the cache
\* is next cleared returns that result again without running ps.
C21_FailedLookupStored ==
    [][(LookupFailed /\ SamePidLookedUpAgain) =>
           /\ obs.lookup.pid \in DOMAIN obs'.lookup.before.cache
           /\ ~obs'.lookup.queried
           /\ obs'.lookup.val = obs.lookup.val]_vars

\* ------------------------------------------------------------ C22
\* How far a pass has come.
CycleRank(p) ==
    CASE p = "c_decide" -> 1
      [] p = "c_loading" -> 2
      [] p = "g_start" -> 3
      [] p = "g_batch" -> 4
      [] p = "c_send_list" -> 5
      [] p = "c_send_clear" -> 6
      [] OTHER -> 0

\* C22: a refresh request that arrives while a pass is running leaves the
\* pass as it is; the pass goes forward to the end and is left only once its
\* list is published, the request staying in the queue meanwhile; and the
\* next pass started after it is the one select! starts for the request.
C22_NoPreemption ==
    [][/\ (obs'.accepted > obs.accepted /\ InCycle) =>
              /\ pc' = pc
              /\ frame' = frame
              /\ refresh_queue' = refresh_queue + 1
       /\ InCycle =>
              /\ refresh_queue' >= refresh_queue
              /\ CycleRank(pc') >= CycleRank(pc) \/ pc' = frame.ret
              /\ pc' = frame.ret => obs'.published # None
       /\ (obs.midcycle /\ pc = "m_select" /\ pc' # pc) => pc' = "m_manual"]_vars

\* ------------------------------------------------------------ C23
\* s is the beginning of t.
IsPrefix(s, t) == Len(s) <= Len(t) /\ SubSeq(t, 1, Len(s)) = s

\* What a pass is to send, in this order.
Bracket(full) ==
    IF full THEN <<"Collecting process data...", "ProcessList", "">>
    ELSE <<"ProcessList">>

\* The last pass begun has returned.
PassReturned == ~InCycle /\ Published

\* The consumer has applied everything sent up to the end of a full pass,
\* and neither the monitor task nor the task of new() has sent a status since.
FullPassDrained ==
    /\ PassReturned
    /\ obs.full
    /\ pc \in {"m_clear0", "m_select", "m_sysinfo"}
    /\ ~obs.startup_since
    /\ updates = <<>>

CycleDone == pc = "m_select" /\ obs.trigger # "initial"

\* C24, as claimed: every cycle, started by the timer or by a refresh
\* request, has published a process list and a system-info update when it
\* is over.
C24_ListAndSystemInfo ==
    CycleDone => Published /\ obs.sysinfo

\* C24, amended: a cycle started by the timer has published a process list
\* and a system-info update when it is over; a cycle started by a refresh
\* request has published a process list and no system-info update.
C24_SystemInfoOnTick ==
    CycleDone =>
        /\ Published
        /\ obs.sysinfo <=> obs.trigger = "timer"

\* A cycle started by a refresh request is over, after one started by the
\* timer: its forced full pass has published its list, and no system-info
\* update has followed.
C24_Witness ==
    /\ CycleDone
    /\ obs.trigger = "request"
    /\ obs.delivered > 0
    /\ obs.manual > 0
    /\ obs.forced
    /\ Published
    /\ ~obs.sysinfo
    /\ next_tick > 0

\* ------------------------------------------------------------ C25
\* select! has a branch that is or will be ready: a request is queued or
\* the sender dropped, a tick is due, or the clock of the run has not reached
\* its horizon.
BranchComes ==
    refresh_queue > 0 \/ ui = "closed" \/ now >= next_tick \/ now < ShortHorizon

\* C25: the collector never stops: whatever lookups failed, processes
\* exited, requests were dropped or sends failed, the task is never at a
\* send that cannot return (the channel has room or fails the send, or its
\* receiver is there to make room), every cycle that starts is followed by
\* the loop waiting in select! again, and every wait in select! by the start
\* of another cycle.
C25_CollectorNeverStops ==
    /\ [](~crashed /\ (pc \in SendPositions => HasRoom \/ ui # "closed"))
    /\ (pc = "c_decide") ~> (pc = "m_select")
    /\ (pc = "m_select" /\ BranchComes) ~> (pc = "c_decide")

\* The loop waits in select! again after a full pass in which both lookups
\* failed for a process that had vanished, a request having been dropped
\* before.
C25_Witness ==
    /\ pc = "m_select"
    /\ Published
    /\ obs.full
    /\ obs.dropped > 0
    /\ obs.user_failed # {}
    /\ obs.threads_failed # {}

\* ------------------------------------------------------------ C26
\* The pids of the chunks of a pass, one after the other.
RECURSIVE ChunkPids(_)
ChunkPids(chunks) ==
    IF chunks = <<>> THEN <<>>
    ELSE ChunkPids(SubSeq(chunks, 1, Len(chunks) - 1)) \o chunks[Len(chunks)].pids

\* C26: a pass merges its sample in consecutive chunks of at least one and at
\* most the batch size processes each (50; MaxBatch in the batch run), all
\* of the sample once the merge is over; the 5 ms sleep follows every chunk
\* that another chunk follows; and no more than the batch size processes
\* are merged without a sleep in between.
C26_Batching ==
    /\ IsPrefix(ChunkPids(obs.chunks), PidSeq(obs.sample))
    /\ pc \in {"c_send_list", "c_send_clear"} => ChunkPids(obs.chunks) = PidSeq(obs.sample)
    /\ \A i \in 1..Len(obs.chunks) :
           /\ Len(obs.chunks[i].pids) \in 1..obs.chunks[i].size
           /\ obs.chunks[i].before + Len(obs.chunks[i].pids) <= obs.chunks[i].size
           /\ i < Len(obs.chunks) => obs.chunks[i].slept

\* A pass has merged a sample of two processes in two chunks, with a sleep
\* after the first.
C26_Witness ==
    /\ pc = "c_send_list"
    /\ Len(obs.sample) = 2
    /\ Len(obs.chunks) = 2
    /\ obs.chunks[1].slept
    /\ obs.chunks[1].pids = <<obs.sample[1].pid>>
    /\ obs.chunks[2].pids = <<obs.sample[2].pid>>
    /\ obs.chunks[2].before = 0

\* ------------------------------------------------------------ C27
\* C27: after any number of SystemResources::update calls cpu_history and
\* memory_history hold at most 60 entries and as many as each other, and
\* after 60 calls or more they are the last 60 values pushed, oldest first.
C27_SystemHistoryBound ==
    LET sr == app.system_resources
    IN /\ Len(sr.cpu_history) <= HISTORY_CAP
       /\ Len(sr.memory_history) = Len(sr.cpu_history)
       /\ Len(probe.pushed) >= HISTORY_CAP =>
              /\ sr.cpu_history = LastN(PushedCpu, HISTORY_CAP)
              /\ sr.memory_history = LastN(PushedMemory, HISTORY_CAP)

\* 62 updates were applied: the histories hold the 3rd to the 62nd value
\* pushed, the first two being evicted after the zeros the histories start
\* with.
C27_Witness ==
    LET sr == app.system_resources
    IN /\ Len(probe.pushed) = HISTORY_CAP + 2
       /\ Len(sr.cpu_history) = HISTORY_CAP
       /\ sr.cpu_history[1] = probe.pushed[3].cpu
       /\ sr.memory_history[HISTORY_CAP] = probe.pushed[HISTORY_CAP + 2].memory
       /\ sr.cpu_history # SubSeq(PushedCpu, 1, HISTORY_CAP)
       /\ sr.memory_history # SubSeq(PushedMemory, 1, HISTORY_CAP)

\* ------------------------------------------------------------ C28
\* The step is main's handling of a ProcessList update, without a panic.
ListApplied ==
    /\ updates # <<>>
    /\ Head(updates).kind = "ProcessList"
    /\ updates' = Tail(updates)
    /\ ~crashed'

\* The pid of the snapshot selected_index points to, in a non-empty list.
SelectedPid(a) == a.processes[a.selected_index + 1].pid

\* C28: when main applies a ProcessList update (update_selection, then
\* sort_processes) while a process is selected whose pid the new list still
\* holds, selected_index points to the snapshot of that pid afterwards.
C28_SelectionMaintained ==
    [][(/\ ListApplied
        /\ app.processes # <<>>
        /\ ~IndexPanics(app)
        /\ SelectedPid(app) \in PidSet(Head(updates).list)) =>
           /\ app'.processes # <<>>
           /\ SelectedPid(app') = SelectedPid(app)]_vars

\* ------------------------------------------------------------ C29
\* The step is Backspace pressed right after a character was typed, the list
\* and the filter being as the character left them.
BackspaceAfterChar ==
    /\ obs'.key.name = "backspace"
    /\ obs.key.name = "char"
    /\ keys' = keys + 1
    /\ app.processes = obs.key.after
    /\ Len(app.filter) = Len(obs.key.filter) + 1

\* C29: add_to_filter(c) followed at once by backspace_filter() leaves the
\* processes on display as they were before the two calls.
C29_FilterKeepsList ==
    [][BackspaceAfterChar =>
           /\ app'.filter = obs.key.filter
           /\ PidSet(app'.processes) = PidSet(obs.key.before)]_vars

\* ------------------------------------------------------------ C30
\* The step is a call of clear_filter.
ClearStep == obs'.key.name = "clear" /\ keys' = keys + 1

RefreshAttempts(o) == o.accepted + o.dropped

\* The list on display is the whole process table.
FullListShown ==
    /\ PidSet(app.processes) = os.alive
    /\ Len(app.processes) = Cardinality(os.alive)

\* The last key cleared a filter that was not empty, and the list on display
\* is still the filtered one.
ClearedFiltered ==
    /\ obs.key.name = "clear"
    /\ obs.key.filter # <<>>
    /\ app.filter = <<>>
    /\ ~FullListShown

\* C30: clear_filter on a filter that is not empty empties it and sends one
\* refresh request, and the list on display becomes the whole process table
\* again unless the operator types into the filter anew; on an empty filter
\* it sends nothing and changes nothing.
C30_ClearFilterRestores ==
    /\ [][ClearStep =>
             IF app.filter # <<>>
             THEN /\ app'.filter = <<>>
                  /\ RefreshAttempts(obs') = RefreshAttempts(obs) + 1
                  /\ refresh_queue' = TrySendRefresh
             ELSE /\ app' = app
                  /\ RefreshAttempts(obs') = RefreshAttempts(obs)
                  /\ refresh_queue' = refresh_queue]_vars
    /\ ClearedFiltered ~> (FullListShown \/ app.filter # <<>>)

C30_Witness ==
    /\ obs.key.name = "clear"
    /\ obs.key.filter # <<>>
    /\ PidSet(obs.key.before) # os.alive
    /\ app.filter = <<>>
    /\ FullListShown
    /\ now = ShortHorizon

\* ------------------------------------------------------------ C31
\* C31: the selected index is below the length of the consumer's list whenever
\* the list is not empty, and no step has read the list out of range.
C31_SelectionIndexValid ==
    /\ ~crashed
    /\ app.processes # <<>> => app.selected_index < Len(app.processes)

\* ------------------------------------------------------------ C32
\* The cache holds pid p with the placeholder user.
HasPlaceholder(p) ==
    p \in DOMAIN process_cache /\ process_cache[p].user = "fetching..."

InitialLoadDone ==
    /\ pc \notin {"m_init", "m_sysinfo0", "m_clear0"}
    /\ ~(InCycle /\ frame.ret = "m_clear0")

\* No clearing update is on its way to the consumer.
NoClearInFlight ==
    \A i \in 1..Len(updates) : updates[i] # MsgLoadingStatus("")

\* The consumer takes an update that changes its loading status, the clearing
\* update of the initial load having been applied.
StatusChangesAfterInitialClear ==
    /\ InitialLoadDone
    /\ NoClearInFlight
    /\ app.loading_status = ""
    /\ updates # <<>>
    /\ updates' = Tail(updates)
    /\ app'.loading_status # ""

\* C33: once the consumer has applied the clearing update of the initial load,
\* its loading status stays empty until the next full refresh begins;
\* "Starting up..." is never applied after that update.
C33_StartupNeverLate ==
    [][StatusChangesAfterInitialClear =>
           app'.loading_status \in {"Manual refresh requested...",
                                    "Collecting process data..."}]_vars

\* ------------------------------------------------------------ C34
\* A pass started for a request is past the start of its full refresh.
ManualPassRefreshed ==
    frame.ret = "m_select" /\ pc \in {"g_start", "g_batch", "c_send_list", "c_send_clear"}

\* C34: requests are not coalesced: every request the queue took waits in it
\* or was taken up by a select! of its own; every request taken up has its
\* own "Manual refresh requested..." status and its own full pass, which
\* resets the time of the last full refresh and publishes its own list; so k
\* requests taken by the queue end in k lists published by forced passes.
C34_NoCoalescing ==
    /\ [](/\ obs.accepted = obs.delivered + refresh_queue
          /\ obs.delivered = obs.manual + (IF pc = "m_manual" THEN 1 ELSE 0)
          /\ obs.manual_lists <= obs.manual
          /\ obs.manual <= obs.manual_lists + 1
          /\ pc = "m_select" => obs.manual_lists = obs.delivered
          /\ ManualPassRefreshed =>
                 /\ frame.is_full_refresh
                 /\ last_full_refresh = obs.pass_start
                 /\ obs.manual = obs.manual_lists + (IF pc = "c_send_clear" THEN 0 ELSE 1))
    /\ \A k \in 1..MaxFairRequests : (obs.accepted >= k) ~> (obs.manual_lists >= k)

\* Two requests were taken by the queue, each was taken up by a select! of
\* its own, and the pass of the second has published its list as the pass of
\* the first had.
C34_Witness ==
    /\ obs.accepted = MaxFairRequests
    /\ obs.manual_lists = MaxFairRequests
    /\ obs.midcycle = FALSE
    /\ pc = "c_send_clear"
    /\ frame.ret = "m_select"
    /\ last_full_refresh = now

\* ------------------------------------------------------------ C35
\* C35: when a pass has published its list, every snapshot in the list equals,
\* field by field, the entry the process cache holds for its pid.
C35_PublishedMatchesCache ==
    Published =>
        \A i \in 1..Len(PublishedList) :
            /\ PublishedList[i].pid \in DOMAIN process_cache
            /\ PublishedList[i] = process_cache[PublishedList[i].pid]

\* A partial pass has published a process it had seen before, with the
\* history the pass just extended.
C35_Witness ==
    /\ Published
    /\ ~obs.full
    /\ \E p \in SeenAgain :
          /\ p \in PidSet(PublishedList)
          /\ EntryOf(PublishedList, p) = process_cache[p]
          /\ Len(process_cache[p].cpu_history) > Len(obs.pre_cache[p].cpu_history)

\* ------------------------------------------------------------ C36
\* C36: a value that a lookup returns from its cache without running ps was
\* stored at most the lifetime of the cache (30 s for users, 5 s for thread
\* counts) before the lookup: no entry of the cache is older when a lookup
\* hits.
C36_BoundedStaleness ==
    (LookupMade /\ ~obs.lookup.queried) =>
        /\ obs.lookup.stored_at <= obs.lookup.at
        /\ obs.lookup.at - obs.lookup.stored_at <= LookupTtl

\* A thread count stored 5 s before was returned without a query, though ps
\* would print another by now.
C36_Witness ==
    /\ obs.lookup.kind = "threads"
    /\ ~obs.lookup.queried
    /\ obs.lookup.at - obs.lookup.stored_at = THREAD_TTL_SECS
    /\ obs.lookup.val # obs.lookup.external

\* ------------------------------------------------------------ C37
\* The mutexes the monitor task locks in its next step.
LocksNeeded ==
    CASE pc = "m_init" -> {"system"}
      [] pc = "c_decide" ->
           IF IsFullRefresh(frame.force_full_refresh, last_full_refresh, now)
           THEN {"last_full_refresh"} ELSE {"last_full_refresh", "system"}
      [] pc = "c_loading" -> {"system"}
      [] pc = "g_start" -> {"process_cache", "system"}
      [] pc = "g_batch" ->
           IF frame.is_full_refresh /\ frame.next_chunk <= Len(frame.system_processes)
           THEN {"user_cache", "thread_cache"} ELSE {}
      [] OTHER -> {}

\* The guards that are alive at each place of the monitor task.
HeldAt ==
    CASE pc \in {"m_sysinfo0", "m_sysinfo"} -> {"system"}
      [] pc \in {"c_loading", "g_start", "c_send_list", "c_send_clear"} ->
           {"last_full_refresh"}
      [] pc = "g_batch" -> {"last_full_refresh", "process_cache"}
      [] OTHER -> {}

\* C37: the monitor task never waits for a mutex it holds itself: every lock
\* its next step takes is free; the sends of a cycle are made under the guard
\* of last_full_refresh and outside that of process_cache; and when the cycle
\* has returned all the locks taken in it are released (the timer branch then
\* holds system for its SystemInfo only).
C37_LocksDeadlockFree ==
    /\ frame.held \subseteq Locks
    /\ \A m \in LocksNeeded : CanLock(m)
    /\ frame.held = HeldAt
    /\ ~InCycle => frame.held \cap {"last_full_refresh", "process_cache",
                                     "user_cache", "thread_cache"} = {}
    /\ pc = "m_select" => frame.held = {}

\* A full refresh started by the timer has taken all five locks, sent its
\* updates and returned, and the SystemInfo that follows is sent: no guard
\* is left.
C37_Witness ==
    /\ pc = "m_select"
    /\ frame.held = {}
    /\ Published
    /\ obs.full
    /\ obs.looked # {}
    /\ obs.sysinfo
    /\ obs.sent = Bracket(TRUE)

\* ------------------------------------------------------------ C38
\* The list is ordered by the key, in the direction given.
IsSorted(list, key, ascending) ==
    \A i \in 1..Len(list) : \A j \in 1..Len(list) :
        i < j => NotAfter(list[i], list[j], key, ascending)

\* The step is a key that is not a request for a refresh.
SortStep == keys' = keys + 1 /\ RefreshAttempts(obs') = RefreshAttempts(obs)

\* The step is a call of set_sort_key.
SortKeyStep == SortStep /\ obs'.key.name \in SortKeys

\* C38: the consumer's list is ordered by sort_key in the direction of
\* sort_ascending after every ProcessList update applied and after every
\* set_sort_key and toggle_sort; set_sort_key flips the direction when given
\* the current key and switches to descending when given another; toggle_sort
\* flips the direction and leaves the key.
C38_ListSorted ==
    /\ [](~crashed => IsSorted(app.processes, app.sort_key, app.sort_ascending))
    /\ [][/\ SortKeyStep =>
                /\ app'.sort_key = obs'.key.name
                /\ app'.sort_ascending =
                       (IF app.sort_key = obs'.key.name THEN ~app.sort_ascending ELSE FALSE)
                /\ PidSet(app'.processes) = PidSet(app.processes)
          /\ (SortStep /\ obs'.key.name = "toggle") =>
                /\ app'.sort_key = app.sort_key
                /\ app'.sort_ascending = ~app.sort_ascending
                /\ PidSet(app'.processes) = PidSet(app.processes)]_vars

\* The key was set to Name twice, which left the list in ascending order of
\* the names; an update was applied since, and the list of two processes is
\* in that order still.
C38_Witness ==
    /\ app.sort_key = "Name"
    /\ app.sort_ascending
    /\ obs.key.name = "Name"
    /\ keys = 2
    /\ Len(app.processes) = 2
    /\ app.processes[1].pid = 1
    /\ app.processes # obs.key.after

\* ------------------------------------------------------------ C39
\* The two histories of a ProcessInfo are equally long, hold between 1 and 60
\* values, and end with the current cpu_usage and memory.
HistoryShape(info) ==
    /\ Len(info.cpu_history) = Len(info.memory_history)
    /\ Len(info.cpu_history) >= 1
    /\ Len(info.cpu_history) <= HISTORY_CAP
    /\ info.cpu_history[Len(info.cpu_history)] = info.cpu_usage
    /\ info.memory_history[Len(info.memory_history)] = info.memory

\* C39: every ProcessInfo, as ProcessInfo::new and update_history leave it,
\* has histories of that shape; so has every entry of the process cache.
C39_HistoryShape ==
    /\ probe.info # None => HistoryShape(probe.info[1])
    /\ \A p \in DOMAIN process_cache : HistoryShape(process_cache[p])

\* The histories are full and the last update pushed values that differ from
\* the ones before them.
C39_Witness ==
    /\ probe.info # None
    /\ probe.n > HISTORY_CAP
    /\ Len(probe.info[1].memory_history) = HISTORY_CAP
    /\ probe.info[1].cpu_usage # probe.info[1].cpu_history[HISTORY_CAP - 1]
    /\ probe.info[1].memory # probe.info[1].memory_history[HISTORY_CAP - 1]

====
